---- MODULE Spec2Model ----
(***************************************************************************)
(* Model of the expense-journal bot: the "add expense" dialog (FSM), the   *)
(* handler chain of the dispatcher, the session store and the ledger.      *)
(*                                                                         *)
(* Strings are sequences of lexemes: a lexeme is a whitespace character,   *)
(* a digit, a sign, a decimal separator, the delimiter "::" or a word      *)
(* without whitespace (a name, a command, a callback constant).            *)
(***************************************************************************)
EXTENDS Integers, Sequences, FiniteSets, TLC

VARIABLES
    user_state,          \* table user_state: user id -> (state, payload)
    expenses,            \* table expenses, in insertion order
    last,                \* the update in hand and what its dispatch did
    next_update_offset,  \* the cursor of start_long_polling
    updates,             \* the part of the fetched batch still to dispatch
    loop_pc,             \* where the polling loop is: "fetch", "for", "stopped"
    pending,             \* the updates Telegram holds, unconfirmed
    last_update_id,      \* the update_id Telegram gave last
    journal,             \* what the polling loop did, in order
    amount_text,         \* a text given to parse_amount
    amount_value,        \* what parse_amount returned for it
    utcnow,              \* the server's clock: <<year, month, day>>
    report               \* what monthly_report_by_category returned last

bot_vars == <<user_state, expenses, last>>
loop_vars == <<next_update_offset, updates, loop_pc, pending, last_update_id, journal>>
parse_vars == <<amount_text, amount_value>>
report_vars == <<utcnow, report>>
vars == <<bot_vars, loop_vars, parse_vars, report_vars>>

(* ------------------------------ bounds --------------------------------- *)

\* The add trigger is delivered while the ledger holds fewer than MaxRecords
\* records, so the ledger never holds more.
MaxRecords == 1

\* Amounts are fixed-point numbers with FracDigits decimal digits.
FracDigits == 2

Users == {1}

(* --------------------------- string helpers ---------------------------- *)

RECURSIVE Pow10(_)
Pow10(n) == IF n <= 0 THEN 1 ELSE 10 * Pow10(n - 1)

IsSpace(c) == c = " "

RECURSIVE lstrip(_)
lstrip(s) == IF s # <<>> /\ IsSpace(Head(s)) THEN lstrip(Tail(s)) ELSE s

RECURSIVE rstrip(_)
rstrip(s) ==
    IF s # <<>> /\ IsSpace(s[Len(s)]) THEN rstrip(SubSeq(s, 1, Len(s) - 1)) ELSE s

\* str.strip()
strip(s) == rstrip(lstrip(s))

\* str.replace(a, b) for single lexemes
replace(s, a, b) == [i \in 1..Len(s) |-> IF s[i] = a THEN b ELSE s[i]]

\* str.startswith(word) for a one-lexeme prefix
startswith(s, word) == s # <<>> /\ Head(s) = word

\* index of the first occurrence of lexeme c in s, 0 when there is none
IndexOf(s, c) ==
    IF \E i \in 1..Len(s) : s[i] = c
    THEN CHOOSE i \in 1..Len(s) : s[i] = c /\ \A j \in 1..(i - 1) : s[j] # c
    ELSE 0

(* ---------------------------- parse_amount ----------------------------- *)

Digits == {"0", "1", "2", "3", "4", "5", "6", "7", "8", "9"}

DigitVal(c) ==
    CASE c = "0" -> 0 [] c = "1" -> 1 [] c = "2" -> 2 [] c = "3" -> 3
      [] c = "4" -> 4 [] c = "5" -> 5 [] c = "6" -> 6 [] c = "7" -> 7
      [] c = "8" -> 8 [] c = "9" -> 9

RECURSIVE DigitsVal(_)
DigitsVal(s) ==
    IF s = <<>> THEN 0 ELSE 10 * DigitsVal(SubSeq(s, 1, Len(s) - 1)) + DigitVal(s[Len(s)])

AllDigits(s) == \A i \in 1..Len(s) : s[i] \in Digits

\* A float: kind "fin" with value v / 10^FracDigits, or "inf", "ninf", "nan".
\* NoFloat is the failure of the conversion (ValueError) and None of parse_amount.
NoFloat == [kind |-> "none", v |-> 0]
Fin(v) == [kind |-> "fin", v |-> v]

\* unsigned decimal literal: digits [ "." digits ] | "." digits
\* digits beyond the precision of the model are dropped
Truncated(fp) == IF Len(fp) > FracDigits THEN SubSeq(fp, 1, FracDigits) ELSE fp

\* the value of integer digits ip and fraction digits f
Scaled(ip, f) == Fin(DigitsVal(ip) * Pow10(FracDigits) + DigitsVal(f) * Pow10(FracDigits - Len(f)))

Decimal(ip, fp) ==
    IF AllDigits(ip) /\ AllDigits(fp) /\ Len(ip) + Len(fp) > 0
    THEN Scaled(ip, Truncated(fp))
    ELSE NoFloat

\* s split at the position dot of its first "." (0: none)
DecimalAt(s, dot) ==
    IF dot = 0 THEN Decimal(s, <<>>)
    ELSE Decimal(SubSeq(s, 1, dot - 1), SubSeq(s, dot + 1, Len(s)))

UnsignedFloat(s) ==
    IF s = <<"nan">> THEN [kind |-> "nan", v |-> 0]
    ELSE IF s = <<"inf">> THEN [kind |-> "inf", v |-> 0]
    ELSE DecimalAt(s, IndexOf(s, "."))

\* Python float(s) on the lexemes of the model
Negated(u) ==
    CASE u.kind = "fin" -> Fin(0 - u.v)
      [] u.kind = "inf" -> [kind |-> "ninf", v |-> 0]
      [] OTHER -> u

\* a literal with an optional sign
SignedFloat(t) ==
    IF t # <<>> /\ Head(t) = "-" THEN Negated(UnsignedFloat(Tail(t)))
    ELSE IF t # <<>> /\ Head(t) = "+" THEN UnsignedFloat(Tail(t))
    ELSE UnsignedFloat(t)

float(s) == SignedFloat(strip(s))

\* value <= 0 on floats (every comparison with nan is false)
LeqZero(a) == (a.kind = "fin" /\ a.v <= 0) \/ a.kind = "ninf"

Positive(a) == (a.kind = "fin" /\ a.v > 0) \/ a.kind = "inf"

\* "except Exception: return None" and "if value <= 0: return None"
positive_or_none(value) ==
    IF value = NoFloat THEN NoFloat
    ELSE IF LeqZero(value) THEN NoFloat
    ELSE value

\* "if s.startswith('+'): s = s[1:].lstrip()"
drop_plus(s) == IF startswith(s, "+") THEN lstrip(Tail(s)) ELSE s

parse_amount(text) == positive_or_none(float(drop_plus(replace(strip(text), ",", "."))))

(* ------------------------ session store (state_repo) ------------------- *)

\* payload: a JSON object, modelled as a function from its keys to values
EmptyPayload == <<>>

None == "None"

Has(p, k) == k \in DOMAIN p

Put(p, k, v) == [x \in (DOMAIN p) \cup {k} |-> IF x = k THEN v ELSE p[x]]

\* json.loads(json.dumps(payload)): strings, numbers (NaN and Infinity
\* included), integers and null are written and read back unchanged
json_roundtrip(p) == [k \in DOMAIN p |-> p[k]]

\* get_state(conn, user_id) on the table us
\* a read that has no default for a user without a row
get_state_no_default(us, u) ==
    IF u \notin DOMAIN us
    THEN [state |-> "None", payload |-> EmptyPayload]
    ELSE [state |-> us[u].state, payload |-> us[u].payload]

get_state(us, u) ==
    IF u \notin DOMAIN us
    THEN [state |-> "IDLE", payload |-> EmptyPayload]
    ELSE [state |-> us[u].state, payload |-> us[u].payload]

\* a table with one row shared by every user: the write is not keyed
Upsert_shared_row(us, u, row) == [x \in (DOMAIN us) \cup {u} |-> row]

\* the upsert of set_state / reset_state
Upsert(us, u, row) == [x \in (DOMAIN us) \cup {u} |-> IF x = u THEN row ELSE us[x]]

(* ------------------ the world threaded through a dispatch -------------- *)

\* us, ex: the two tables;
\* out, del, ack: the calls made to the Bot API during this dispatch;
\* calls: number of send attempts; sendFail: index of the send attempt that
\* fails (0: none); delOk: whether deleteMessage succeeds; raised: an
\* exception is propagating.
World(us, ex, sendFail, delOk) ==
    [us |-> us, ex |-> ex, out |-> <<>>, del |-> <<>>, ack |-> 0,
     calls |-> 0, sendFail |-> sendFail, delOk |-> delOk, raised |-> FALSE]

set_state(w, u, state, payload) ==
    IF w.raised THEN w
    ELSE [w EXCEPT !.us = Upsert(w.us, u, [state |-> state, payload |-> json_roundtrip(payload)])]

reset_state(w, u) ==
    IF w.raised THEN w
    ELSE [w EXCEPT !.us = Upsert(w.us, u, [state |-> "IDLE", payload |-> EmptyPayload])]

\* The id Telegram gives a new message is fresh: it differs from the id of
\* every message a session still refers to and of every message sent earlier
\* in the same dispatch.  Ids of forgotten messages are used again, which
\* keeps the ids of the model bounded.
KnownIds(w) ==
    {w.us[u].payload["last_msg_id"] : u \in {x \in DOMAIN w.us : Has(w.us[x].payload, "last_msg_id")}}
      \cup {w.out[i].id : i \in 1..Len(w.out)}

SmallestAbsent(ids) ==
    CHOOSE i \in 1..(Cardinality(ids) + 1) :
        i \notin ids /\ \A j \in 1..(i - 1) : j \in ids

FreshId(w) == SmallestAbsent(KnownIds(w))

\* tg.sendMessage: returns the message with the id Telegram assigned, or raises;
\* dels is the number of deletions requested before it in the dispatch
sendMessage(w, chat, kind) ==
    IF w.raised THEN w
    ELSE IF w.sendFail = w.calls + 1
    THEN [w EXCEPT !.calls = @ + 1, !.raised = TRUE]
    ELSE [w EXCEPT !.calls = @ + 1,
                   !.out = Append(@, [chat |-> chat, kind |-> kind, id |-> FreshId(w),
                                       dels |-> Len(w.del)])]

\* id of the message returned by the last successful send
SentId(w) == w.out[Len(w.out)].id

\* tg.deleteMessage: the request is made; it raises when Telegram refuses it
tg_deleteMessage(w, chat, mid) ==
    IF w.raised THEN w
    ELSE [w EXCEPT !.del = Append(@, [chat |-> chat, id |-> mid]), !.raised = ~w.delOk]

\* "try: body  except Exception: pass" around the calls that lead from w0 to w1
TryPass(w0, w1) == IF w0.raised THEN w0 ELSE [w1 EXCEPT !.raised = FALSE]

\* the deleteMessage call of a handler that does not catch the refusal
deleteMessage_uncaught(w, chat, mid) == tg_deleteMessage(w, chat, mid)

\* the deleteMessage call inside try/except of the handlers
deleteMessage(w, chat, mid) == TryPass(w, tg_deleteMessage(w, chat, mid))

answerCallbackQuery(w) ==
    IF w.raised THEN w ELSE [w EXCEPT !.ack = @ + 1]

(* ----------------------- ledger (expenses_repo, db) -------------------- *)

\* insert_expense that writes the row twice
insert_expense_twice(w, u, category, store, amount, note) ==
    IF w.raised THEN w
    ELSE IF amount.kind = "nan" \/ ~Positive(amount)
    THEN [w EXCEPT !.raised = TRUE]
    ELSE LET row == [id |-> Len(w.ex) + 1, user_id |-> u,
                     category |-> strip(category), store |-> strip(store),
                     amount |-> amount, note |-> strip(note)]
         IN  [w EXCEPT !.ex = Append(Append(@, row), [row EXCEPT !.id = @ + 1])]

\* insert_expense under DDL_EXPENSES: a NaN is bound as NULL and violates
\* NOT NULL; CHECK (amount > 0) rejects the rest of the non-positive values
insert_expense(w, u, category, store, amount, note) ==
    IF w.raised THEN w
    ELSE IF amount.kind = "nan" \/ ~Positive(amount)
    THEN [w EXCEPT !.raised = TRUE]
    ELSE [w EXCEPT !.ex = Append(@, [id |-> Len(w.ex) + 1, user_id |-> u,
                                     category |-> strip(category), store |-> strip(store),
                                     amount |-> amount, note |-> strip(note)])]

(* ------------------------------ updates -------------------------------- *)

\* A Telegram update: a callback_query (data, and the id mid of the message
\* that carries the pressed button) or a message with a text.  Chats are
\* private: the chat id is the user id.
CallbackUpdate(u, data, mid) == [type |-> "callback_query", user |-> u, data |-> data, mid |-> mid]
MessageUpdate(u, text) == [type |-> "message", user |-> u, data |-> text, mid |-> 0]

\* bot.constants
MENU_ADD == <<"MENU_ADD">>
MENU_RECENT == <<"MENU_RECENT">>
MENU_SUM10 == <<"MENU_SUM10">>
MENU_REPORT == <<"MENU_REPORT">>
MENU_EXPORT_CSV == <<"MENU_EXPORT_CSV">>
MENU_HELP == <<"MENU_HELP">>
MENU_MAIN == <<"MENU_MAIN">>
STATE_ASK_CATEGORY == "ASK_CATEGORY"
STATE_ASK_STORE == "ASK_STORE"
STATE_ASK_AMOUNT == "ASK_AMOUNT"
STATE_ASK_NOTE == "ASK_NOTE"
STATE_CONFIRM == "CONFIRM"

\* result of a handler: the world after it and the value it returned
\* ("False": fully consumed, "True" or "None": not consumed)
R(w, c) == [w |-> w, c |-> c]

(* ------------------------ AddExpenseStepsHandler ----------------------- *)

parse_callback(data) ==
    IF data = <<"CANCEL">> THEN [kind |-> <<"CANCEL">>, value |-> <<>>]
    ELSE IF IndexOf(data, "::") # 0
    THEN [kind |-> SubSeq(data, 1, IndexOf(data, "::") - 1),
          value |-> SubSeq(data, IndexOf(data, "::") + 1, Len(data))]
    ELSE [kind |-> <<>>, value |-> <<>>]

text_handlers == {"CATEGORY", "STORE", "AMOUNT", "NOTE"}

callback_handlers == {<<"CATEGORY">>, <<"STORE">>, <<"NOTE">>, <<"CONFIRM">>, <<"CANCEL">>}

\* the previous prompt is deleted and the new one sent, but its id is not
\* written to the payload
_send_and_forget(w, chat, u, kind) ==
    LET st == get_state(w.us, u)
    IN  sendMessage(IF Has(st.payload, "last_msg_id")
                    THEN deleteMessage(w, chat, st.payload["last_msg_id"]) ELSE w,
                    chat, kind)

_send_and_remember(w, chat, u, kind) ==
    LET st == get_state(w.us, u)
        w1 == IF Has(st.payload, "last_msg_id")
              THEN deleteMessage(w, chat, st.payload["last_msg_id"]) ELSE w
        w2 == sendMessage(w1, chat, kind)
    IN  IF w2.raised THEN w2
        ELSE set_state(w2, u, st.state, Put(st.payload, "last_msg_id", SentId(w2)))

_delete_last(w, chat, u) ==
    LET st == get_state(w.us, u)
    IN  IF Has(st.payload, "last_msg_id")
        THEN deleteMessage(w, chat, st.payload["last_msg_id"]) ELSE w

_say_html(w, chat, kind) == sendMessage(w, chat, kind)

_render_store_choice(w, chat, u) == _send_and_remember(w, chat, u, "choose_store")
_prompt_amount(w, chat, u) == _send_and_remember(w, chat, u, "prompt_amount")
_prompt_note(w, chat, u) == _send_and_remember(w, chat, u, "prompt_note")
_render_confirm(w, chat, u) == _send_and_remember(w, chat, u, "confirm")

\* _cb_cancel that forgets reset_state
_cb_cancel_no_reset(w, chat, u, value) ==
    R(_say_html(_delete_last(w, chat, u), chat, "cancelled"), "False")

_cb_cancel(w, chat, u, value) ==
    R(_say_html(reset_state(_delete_last(w, chat, u), u), chat, "cancelled"), "False")

\* _cb_category that moves on without storing the chosen category
_cb_category_not_stored(w, chat, u, value) ==
    LET st == get_state(w.us, u)
    IN  IF st.state # STATE_ASK_CATEGORY THEN R(w, "True")
        ELSE IF value = <<"NEW">>
        THEN R(_send_and_remember(
                   set_state(w, u, STATE_ASK_CATEGORY, Put(st.payload, "expect_text", "CATEGORY")),
                   chat, u, "ask_new_category"), "False")
        ELSE R(_render_store_choice(
                   set_state(w, u, STATE_ASK_STORE,
                             Put(Put(st.payload, "category", <<"x">>), "expect_text", None)),
                   chat, u), "False")

\* _cb_category without the branch of the new-value request
_cb_category_new_as_name(w, chat, u, value) ==
    LET st == get_state(w.us, u)
    IN  IF st.state # STATE_ASK_CATEGORY THEN R(w, "True")
        ELSE R(_render_store_choice(
                   set_state(w, u, STATE_ASK_STORE,
                             Put(Put(st.payload, "category", value), "expect_text", None)),
                   chat, u), "False")

_cb_category(w, chat, u, value) ==
    LET st == get_state(w.us, u)
    IN  IF st.state # STATE_ASK_CATEGORY THEN R(w, "True")
        ELSE IF value = <<"NEW">>
        THEN R(_send_and_remember(
                   set_state(w, u, STATE_ASK_CATEGORY, Put(st.payload, "expect_text", "CATEGORY")),
                   chat, u, "ask_new_category"), "False")
        ELSE R(_render_store_choice(
                   set_state(w, u, STATE_ASK_STORE,
                             Put(Put(st.payload, "category", value), "expect_text", None)),
                   chat, u), "False")

\* _cb_store that reports a stray STORE callback as fully handled
_cb_store_swallows_stray(w, chat, u, value) ==
    LET st == get_state(w.us, u)
    IN  IF st.state # STATE_ASK_STORE THEN R(w, "False")
        ELSE IF value = <<"NEW">>
        THEN R(_send_and_remember(
                   set_state(w, u, STATE_ASK_STORE, Put(st.payload, "expect_text", "STORE")),
                   chat, u, "ask_new_store"), "False")
        ELSE R(_prompt_amount(
                   set_state(w, u, STATE_ASK_AMOUNT,
                             Put(Put(st.payload, "store", value), "expect_text", "AMOUNT")),
                   chat, u), "False")

_cb_store(w, chat, u, value) ==
    LET st == get_state(w.us, u)
    IN  IF st.state # STATE_ASK_STORE THEN R(w, "True")
        ELSE IF value = <<"NEW">>
        THEN R(_send_and_remember(
                   set_state(w, u, STATE_ASK_STORE, Put(st.payload, "expect_text", "STORE")),
                   chat, u, "ask_new_store"), "False")
        ELSE R(_prompt_amount(
                   set_state(w, u, STATE_ASK_AMOUNT,
                             Put(Put(st.payload, "store", value), "expect_text", "AMOUNT")),
                   chat, u), "False")

\* _cb_note without the check of the session state
_cb_note_any_state(w, chat, u, value) ==
    LET st == get_state(w.us, u)
    IN  IF value = <<"SKIP">>
        THEN R(_render_confirm(
                   set_state(w, u, STATE_CONFIRM,
                             Put(Put(st.payload, "note", <<>>), "expect_text", None)),
                   chat, u), "False")
        ELSE R(w, "True")

_cb_note(w, chat, u, value) ==
    LET st == get_state(w.us, u)
    IN  IF st.state # STATE_ASK_NOTE THEN R(w, "True")
        ELSE IF value = <<"SKIP">>
        THEN R(_render_confirm(
                   set_state(w, u, STATE_CONFIRM,
                             Put(Put(st.payload, "note", <<>>), "expect_text", None)),
                   chat, u), "False")
        ELSE R(w, "True")

\* the check of _cb_confirm reduced to "amount is None"
MissingData_amount_only(p) == ~Has(p, "amount")

\* "not category or not store or amount is None"
MissingData(p) ==
    \/ ~Has(p, "category") \/ p["category"] = <<>>
    \/ ~Has(p, "store") \/ p["store"] = <<>>
    \/ ~Has(p, "amount")

\* _cb_confirm that saves without reset_state
_cb_confirm_no_reset(w, chat, u, value) ==
    LET st == get_state(w.us, u)
        p == st.payload
    IN  IF st.state # STATE_CONFIRM THEN R(w, "True")
        ELSE IF value = <<"SAVE">>
        THEN IF MissingData(p)
             THEN R(_say_html(reset_state(_delete_last(w, chat, u), u), chat, "data_lost"), "False")
             ELSE LET w1 == insert_expense(w, u, p["category"], p["store"], p["amount"],
                                           IF Has(p, "note") THEN p["note"] ELSE <<>>)
                      w2 == _delete_last(w1, chat, u)
                  IN  R(sendMessage(w2, chat, "saved"), "False")
        ELSE IF value = <<"CANCEL">>
        THEN R(_say_html(reset_state(_delete_last(w, chat, u), u), chat, "confirm_cancelled"), "False")
        ELSE R(w, "None")

\* _cb_confirm that resets the session before it inserts the record
_cb_confirm_reset_first(w, chat, u, value) ==
    LET st == get_state(w.us, u)
        p == st.payload
    IN  IF st.state # STATE_CONFIRM THEN R(w, "True")
        ELSE IF value = <<"SAVE">>
        THEN IF MissingData(p)
             THEN R(_say_html(reset_state(_delete_last(w, chat, u), u), chat, "data_lost"), "False")
             ELSE R(sendMessage(
                        insert_expense(reset_state(_delete_last(w, chat, u), u), u,
                                       p["category"], p["store"], p["amount"],
                                       IF Has(p, "note") THEN p["note"] ELSE <<>>),
                        chat, "saved"), "False")
        ELSE IF value = <<"CANCEL">>
        THEN R(_say_html(reset_state(_delete_last(w, chat, u), u), chat, "confirm_cancelled"), "False")
        ELSE R(w, "None")

_cb_confirm(w, chat, u, value) ==
    LET st == get_state(w.us, u)
        p == st.payload
    IN  IF st.state # STATE_CONFIRM THEN R(w, "True")
        ELSE IF value = <<"SAVE">>
        THEN IF MissingData(p)
             THEN R(_say_html(reset_state(_delete_last(w, chat, u), u), chat, "data_lost"), "False")
             ELSE LET w1 == insert_expense(w, u, p["category"], p["store"], p["amount"],
                                           IF Has(p, "note") THEN p["note"] ELSE <<>>)
                      w2 == reset_state(_delete_last(w1, chat, u), u)
                  IN  R(sendMessage(w2, chat, "saved"), "False")
        ELSE IF value = <<"CANCEL">>
        THEN R(_say_html(reset_state(_delete_last(w, chat, u), u), chat, "confirm_cancelled"), "False")
        ELSE R(w, "None")

\* _text_new_category without the check for an empty name
_text_new_category_unchecked(w, chat, u, text, payload) ==
    R(_render_store_choice(
          set_state(w, u, STATE_ASK_STORE,
                    Put(Put(payload, "category", text), "expect_text", None)),
          chat, u), "False")

_text_new_category(w, chat, u, text, payload) ==
    IF text = <<>>
    THEN R(_send_and_remember(w, chat, u, "empty_category"), "False")
    ELSE R(_render_store_choice(
               set_state(w, u, STATE_ASK_STORE,
                         Put(Put(payload, "category", text), "expect_text", None)),
               chat, u), "False")

\* _text_new_store that leaves expect_text as it was
_text_new_store_keeps_expect(w, chat, u, text, payload) ==
    IF text = <<>>
    THEN R(_send_and_remember(w, chat, u, "empty_store"), "False")
    ELSE R(_prompt_amount(set_state(w, u, STATE_ASK_AMOUNT, Put(payload, "store", text)),
                          chat, u), "False")

_text_new_store(w, chat, u, text, payload) ==
    IF text = <<>>
    THEN R(_send_and_remember(w, chat, u, "empty_store"), "False")
    ELSE R(_prompt_amount(
               set_state(w, u, STATE_ASK_AMOUNT,
                         Put(Put(payload, "store", text), "expect_text", "AMOUNT")),
               chat, u), "False")

\* _text_amount that goes straight to the confirmation
_text_amount_skips_note(w, chat, u, text, payload) ==
    LET amount == parse_amount(text)
    IN  IF amount = NoFloat
        THEN R(_send_and_remember(w, chat, u, "bad_amount"), "False")
        ELSE R(_render_confirm(
                   set_state(w, u, STATE_CONFIRM,
                             Put(Put(payload, "amount", amount), "expect_text", None)),
                   chat, u), "False")

_text_amount(w, chat, u, text, payload) ==
    LET amount == parse_amount(text)
    IN  IF amount = NoFloat
        THEN R(_send_and_remember(w, chat, u, "bad_amount"), "False")
        ELSE R(_prompt_note(
                   set_state(w, u, STATE_ASK_NOTE,
                             Put(Put(payload, "amount", amount), "expect_text", "NOTE")),
                   chat, u), "False")

_text_note(w, chat, u, text, payload) ==
    R(_render_confirm(
          set_state(w, u, STATE_CONFIRM,
                    Put(Put(payload, "note", text), "expect_text", None)),
          chat, u), "False")

\* payload.get("expect_text")
ExpectText(p) == IF Has(p, "expect_text") THEN p["expect_text"] ELSE None

\* can_handle that takes every token with a namespace
AddExpense_can_handle_any_namespace(w, upd) ==
    IF upd.type = "callback_query"
    THEN parse_callback(upd.data).kind # <<>>
    ELSE LET st == get_state(w.us, upd.user)
         IN  /\ ExpectText(st.payload) \in text_handlers
             /\ st.state \in {STATE_ASK_CATEGORY, STATE_ASK_STORE, STATE_ASK_AMOUNT, STATE_ASK_NOTE}

AddExpense_can_handle(w, upd) ==
    IF upd.type = "callback_query"
    THEN parse_callback(upd.data).kind \in callback_handlers
    ELSE LET st == get_state(w.us, upd.user)
         IN  /\ ExpectText(st.payload) \in text_handlers
             /\ st.state \in {STATE_ASK_CATEGORY, STATE_ASK_STORE, STATE_ASK_AMOUNT, STATE_ASK_NOTE}

\* "if consumed is False: self.tg.answerCallbackQuery(...); return consumed"
\* the callback answered whatever the step returned
answer_always(r) == R(answerCallbackQuery(r.w), r.c)

answer_if_consumed(r) == IF r.c = "False" THEN R(answerCallbackQuery(r.w), "False") ELSE r

AddExpense_handle(w, upd) ==
    LET u == upd.user
        chat == upd.user
    IN  IF upd.type = "callback_query"
        THEN LET pc == parse_callback(upd.data)
             IN  answer_if_consumed(
                     CASE pc.kind = <<"CATEGORY">> -> _cb_category(w, chat, u, pc.value)
                       [] pc.kind = <<"STORE">> -> _cb_store(w, chat, u, pc.value)
                       [] pc.kind = <<"NOTE">> -> _cb_note(w, chat, u, pc.value)
                       [] pc.kind = <<"CONFIRM">> -> _cb_confirm(w, chat, u, pc.value)
                       [] pc.kind = <<"CANCEL">> -> _cb_cancel(w, chat, u, pc.value)
                       [] OTHER -> R(w, "True"))
        ELSE LET text == strip(upd.data)
                 st == get_state(w.us, u)
                 expect == ExpectText(st.payload)
             IN  CASE expect = "CATEGORY" -> _text_new_category(w, chat, u, text, st.payload)
                   [] expect = "STORE" -> _text_new_store(w, chat, u, text, st.payload)
                   [] expect = "AMOUNT" -> _text_amount(w, chat, u, text, st.payload)
                   [] expect = "NOTE" -> _text_note(w, chat, u, text, st.payload)
                   [] OTHER -> R(w, "True")

(* --------------------------- other handlers ---------------------------- *)

StartHelp_can_handle(w, upd) ==
    upd.type = "message" /\ (startswith(upd.data, "/start") \/ startswith(upd.data, "/help"))

\* a command that ends the dialog of the user before it shows the menu
StartHelp_handle_resets(w, upd) ==
    R(sendMessage(reset_state(w, upd.user), upd.user, "main_menu"), "False")

StartHelp_handle(w, upd) ==
    LET w1 == IF startswith(upd.data, "/help") THEN sendMessage(w, upd.user, "help_text") ELSE w
    IN  R(sendMessage(w1, upd.user, "main_menu"), "False")

MenuData == {MENU_ADD, MENU_RECENT, MENU_SUM10, MENU_REPORT, MENU_EXPORT_CSV, MENU_HELP, MENU_MAIN}

MenuCallbacks_can_handle(w, upd) == upd.type = "callback_query" /\ upd.data \in MenuData

_delete_menu_message(w, upd) == deleteMessage(w, upd.user, upd.mid)

\* the add trigger keeps what the payload already holds
MenuCallbacks_handle_keeps_payload(w, upd) ==
    LET w1 == sendMessage(_delete_menu_message(w, upd), upd.user, "choose_category")
    IN  IF upd.data = MENU_ADD
        THEN IF w1.raised THEN R(w1, "False")
             ELSE R(answerCallbackQuery(
                        set_state(w1, upd.user, STATE_ASK_CATEGORY,
                                  Put(get_state(w.us, upd.user).payload, "last_msg_id",
                                      SentId(w1)))), "False")
        ELSE IF upd.data = MENU_MAIN
        THEN R(answerCallbackQuery(
                   sendMessage(_delete_menu_message(w, upd), upd.user, "main_menu")), "False")
        ELSE R(_delete_menu_message(w, upd), "True")

MenuCallbacks_handle(w, upd) ==
    LET w0 == _delete_menu_message(w, upd)
    IN  IF upd.data = MENU_ADD
        THEN LET w1 == sendMessage(w0, upd.user, "choose_category")
             IN  IF w1.raised THEN R(w1, "False")
                 ELSE R(answerCallbackQuery(
                            set_state(w1, upd.user, STATE_ASK_CATEGORY,
                                      Put(EmptyPayload, "last_msg_id", SentId(w1)))), "False")
        ELSE IF upd.data = MENU_MAIN
        THEN R(answerCallbackQuery(sendMessage(w0, upd.user, "main_menu")), "False")
        ELSE R(w0, "True")

Recent_can_handle(w, upd) ==
    /\ upd.type = "callback_query"
    /\ \/ upd.data = MENU_RECENT
       \/ (Len(upd.data) >= 2 /\ upd.data[1] = "RECENT_MORE" /\ upd.data[2] = "::")

Recent_handle(w, upd) ==
    LET w0 == IF upd.data = MENU_RECENT THEN w ELSE deleteMessage(w, upd.user, upd.mid)
    IN  R(answerCallbackQuery(sendMessage(w0, upd.user, "recent_page")), "False")

SumLast10_can_handle(w, upd) == upd.type = "callback_query" /\ upd.data = MENU_SUM10

SumLast10_handle(w, upd) == R(answerCallbackQuery(sendMessage(w, upd.user, "sum10")), "False")

MonthlyReport_can_handle(w, upd) == upd.type = "callback_query" /\ upd.data = MENU_REPORT

MonthlyReport_handle(w, upd) == R(answerCallbackQuery(sendMessage(w, upd.user, "report")), "False")

CsvExport_can_handle(w, upd) == upd.type = "callback_query" /\ upd.data = MENU_EXPORT_CSV

\* tg.sendDocument inside try/except: a failed upload falls back to a text message
sendDocument_or_text(w, chat) ==
    IF w.raised THEN w
    ELSE IF w.sendFail = w.calls + 1
    THEN sendMessage([w EXCEPT !.calls = @ + 1], chat, "export_text")
    ELSE [w EXCEPT !.calls = @ + 1,
                   !.out = Append(@, [chat |-> chat, kind |-> "export_document",
                                       id |-> FreshId(w), dels |-> Len(w.del)])]

CsvExport_handle(w, upd) ==
    LET rows == SelectSeq(w.ex, LAMBDA r : r.user_id = upd.user)
        w1 == IF rows = <<>> THEN sendMessage(w, upd.user, "export_empty")
              ELSE sendDocument_or_text(w, upd.user)
    IN  R(answerCallbackQuery(w1), "False")

HelpMenu_can_handle(w, upd) == upd.type = "callback_query" /\ upd.data = MENU_HELP

HelpMenu_handle(w, upd) == R(answerCallbackQuery(sendMessage(w, upd.user, "help_menu")), "False")

UnknownCallback_can_handle(w, upd) == upd.type = "callback_query"

UnknownCallback_handle(w, upd) ==
    R(answerCallbackQuery(sendMessage(w, upd.user, "unknown_callback")), "False")

UnknownText_can_handle(w, upd) == upd.type = "message"

UnknownText_handle(w, upd) == R(sendMessage(w, upd.user, "unknown_text"), "False")

(* ------------------------------ dispatcher ----------------------------- *)

\* the engine registered before the start/help handler
handlers_engine_first ==
    << "AddExpenseStepsHandler", "StartHelpHandler", "MenuCallbacksHandler",
       "RecentHandler", "SumLast10Handler", "MonthlyReportHandler",
       "CsvExportHandler", "HelpMenuHandler", "UnknownCallbackHandler",
       "UnknownTextHandler" >>

\* registration order of main()
handlers ==
    << "StartHelpHandler", "MenuCallbacksHandler", "AddExpenseStepsHandler",
       "RecentHandler", "SumLast10Handler", "MonthlyReportHandler",
       "CsvExportHandler", "HelpMenuHandler", "UnknownCallbackHandler",
       "UnknownTextHandler" >>

can_handle(h, w, upd) ==
    CASE h = "StartHelpHandler" -> StartHelp_can_handle(w, upd)
      [] h = "MenuCallbacksHandler" -> MenuCallbacks_can_handle(w, upd)
      [] h = "AddExpenseStepsHandler" -> AddExpense_can_handle(w, upd)
      [] h = "RecentHandler" -> Recent_can_handle(w, upd)
      [] h = "SumLast10Handler" -> SumLast10_can_handle(w, upd)
      [] h = "MonthlyReportHandler" -> MonthlyReport_can_handle(w, upd)
      [] h = "CsvExportHandler" -> CsvExport_can_handle(w, upd)
      [] h = "HelpMenuHandler" -> HelpMenu_can_handle(w, upd)
      [] h = "UnknownCallbackHandler" -> UnknownCallback_can_handle(w, upd)
      [] h = "UnknownTextHandler" -> UnknownText_can_handle(w, upd)

handle(h, w, upd) ==
    CASE h = "StartHelpHandler" -> StartHelp_handle(w, upd)
      [] h = "MenuCallbacksHandler" -> MenuCallbacks_handle(w, upd)
      [] h = "AddExpenseStepsHandler" -> AddExpense_handle(w, upd)
      [] h = "RecentHandler" -> Recent_handle(w, upd)
      [] h = "SumLast10Handler" -> SumLast10_handle(w, upd)
      [] h = "MonthlyReportHandler" -> MonthlyReport_handle(w, upd)
      [] h = "CsvExportHandler" -> CsvExport_handle(w, upd)
      [] h = "HelpMenuHandler" -> HelpMenu_handle(w, upd)
      [] h = "UnknownCallbackHandler" -> UnknownCallback_handle(w, upd)
      [] h = "UnknownTextHandler" -> UnknownText_handle(w, upd)

RECURSIVE dispatch_from(_, _, _, _)

\* the loop of dispatch leaving after the first handle call, whatever it returned
after_handle_always_breaks(i, r, upd, chain) ==
    [w |-> r.w,
     chain |-> Append(chain, [h |-> handlers[i],
                              consumed |-> IF r.w.raised THEN "raised" ELSE r.c])]

\* the loop left on every falsy result ("if not consumed: break")
after_handle_falsy_breaks(i, r, upd, chain) ==
    IF r.w.raised
    THEN [w |-> r.w, chain |-> Append(chain, [h |-> handlers[i], consumed |-> "raised"])]
    ELSE IF r.c \in {"False", "None"}
    THEN [w |-> r.w, chain |-> Append(chain, [h |-> handlers[i], consumed |-> r.c])]
    ELSE dispatch_from(i + 1, r.w, upd, Append(chain, [h |-> handlers[i], consumed |-> r.c]))

\* "consumed = handler.handle(update); if consumed is False: break": r is
\* what handler i returned; an exception leaves the loop
after_handle(i, r, upd, chain) ==
    IF r.w.raised
    THEN [w |-> r.w, chain |-> Append(chain, [h |-> handlers[i], consumed |-> "raised"])]
    ELSE IF r.c = "False"
    THEN [w |-> r.w, chain |-> Append(chain, [h |-> handlers[i], consumed |-> r.c])]
    ELSE dispatch_from(i + 1, r.w, upd, Append(chain, [h |-> handlers[i], consumed |-> r.c]))

\* Dispatcher.dispatch from handler i on; chain lists the handle calls made
\* and what each returned ("raised" when it raised)
dispatch_from(i, w, upd, chain) ==
    IF i > Len(handlers) THEN [w |-> w, chain |-> chain]
    ELSE IF ~can_handle(handlers[i], w, upd) THEN dispatch_from(i + 1, w, upd, chain)
    ELSE after_handle(i, handle(handlers[i], w, upd), upd, chain)

dispatch(w, upd) == dispatch_from(1, w, upd, <<>>)

(* ------------------------------- inputs -------------------------------- *)

\* id of the message that carries a pressed menu button: a menu or report
\* message, never a prompt of the dialog
MenuMsgId == 0

CallbackData ==
    { <<"CANCEL">>, <<"CANCEL", "::", "x">>,
      <<"CATEGORY", "::", "Food">>, <<"CATEGORY", "::", "NEW">>,
      <<"CATEGORY", "::">>, <<"CATEGORY", "::", " ">>,
      <<"STORE", "::", "Ozon">>, <<"STORE", "::", "NEW">>,
      <<"NOTE", "::", "SKIP">>, <<"NOTE", "::", "x">>,
      <<"CONFIRM", "::", "SAVE">>, <<"CONFIRM", "::", "CANCEL">>, <<"CONFIRM", "::", "x">>,
      <<"RECENT_MORE", "::", "1", "0">>, <<"x">> } \cup MenuData

\* texts typed in any situation: an empty line, a word, the commands
CommonTexts == { <<" ">>, <<"hi">>, <<"/start">>, <<"/help">> }

\* The user answers a prompt in kind: names are typed when a name is asked
\* for, amounts when the amount is asked for.
CategoryTexts == { <<" ", "Food", " ">> }
StoreTexts == { <<" ", "Ozon", " ">> }
AmountTexts ==
    { <<"5", ",", "5", "0">>, <<" ", "+", "5", ".", "5">>, <<"-", "5">>, <<"0">>, <<"nan">> }

Texts(expect) ==
    CommonTexts \cup
      (CASE expect = "CATEGORY" -> CategoryTexts
         [] expect = "STORE" -> StoreTexts
         [] expect = "AMOUNT" -> AmountTexts
         [] OTHER -> {})

(* ------------------------- the state machine --------------------------- *)

\* last: the update the polling loop is handling, with the tables before its
\* dispatch (pre), the outcome of the Bot API calls (sendFail, delOk) and
\* what the dispatch did; NoEvent between two updates
NoEvent == [handling |-> FALSE]

\* "next_update_offset = None": no update_id is below 1
NoOffset == 0

Unparsed == [kind |-> "unparsed", v |-> 0]

\* no report asked yet
NoReport == [asked |-> FALSE]

\* the days the model knows, as <<year, month, day>>, in the order of time
Days == << <<2025, 11, 30>>, <<2026, 10, 31>>, <<2026, 11, 1>> >>

Init ==
    /\ user_state = <<>>
    /\ expenses = <<>>
    /\ last = NoEvent
    /\ next_update_offset = NoOffset
    /\ updates = <<>>
    /\ loop_pc = "fetch"
    /\ pending = <<>>
    /\ last_update_id = 0
    /\ journal = <<>>
    /\ amount_text = <<>>
    /\ amount_value = Unparsed
    /\ utcnow = Days[1]
    /\ report = NoReport

\* what the loop holds after the dispatch d of upd: the tables as d left
\* them, and in last the update, the tables before it and what d did
Handled(upd, sendFail, delOk, d) ==
    /\ user_state' = d.w.us
    /\ expenses' = d.w.ex
    /\ last' = [handling |-> TRUE, upd |-> upd,
                pre |-> [us |-> user_state, ex |-> expenses],
                sendFail |-> sendFail, delOk |-> delOk,
                out |-> d.w.out, del |-> d.w.del, ack |-> d.w.ack,
                raised |-> d.w.raised, chain |-> d.chain]

\* the outcomes of the Bot API calls of a dispatch, d0 being the dispatch
\* with every call accepted: any one of the send attempts may fail (sendFail
\* names it, 0: none), and the deletions may fail (delOk)
Outcomes(upd, d0) ==
    \E sendFail \in 0..d0.w.calls, delOk \in (IF d0.w.del = <<>> THEN {TRUE} ELSE BOOLEAN) :
        Handled(upd, sendFail, delOk,
                IF sendFail = 0 /\ delOk THEN d0
                ELSE dispatch(World(user_state, expenses, sendFail, delOk), upd))

\* "dispatcher.dispatch(update)" of the polling loop, inside its try/except:
\* the whole dispatch of one update
Dispatch(upd) ==
    /\ last = NoEvent
    /\ Outcomes(upd, dispatch(World(user_state, expenses, 0, TRUE), upd))
    /\ UNCHANGED <<loop_vars, parse_vars, report_vars>>

ReceiveCallback ==
    \E u \in Users, data \in CallbackData :
        /\ data = MENU_ADD => Len(expenses) < MaxRecords
        /\ Dispatch(CallbackUpdate(u, data, MenuMsgId))

ReceiveText ==
    \E u \in Users :
      \E text \in Texts(ExpectText(get_state(user_state, u).payload)) :
        Dispatch(MessageUpdate(u, text))

\* the loop moves on to the next update, whether the dispatch returned or raised
Advance ==
    /\ last # NoEvent
    /\ last' = NoEvent
    /\ UNCHANGED <<user_state, expenses, loop_vars, parse_vars, report_vars>>

Next == ReceiveCallback \/ ReceiveText \/ Advance

Spec == Init /\ [][Next]_vars

(* ------------------------ the polling loop ----------------------------- *)
(* start_long_polling: fetch a batch with the cursor, dispatch its updates  *)
(* one by one, move the cursor after each.  Telegram gives update_ids in    *)
(* increasing order and answers getUpdates(offset) with the updates it      *)
(* holds whose update_id is offset or more, forgetting the ones below.      *)

MaxUpdates == 3
MaxFetchFailures == 1
LoopUsers == {1, 2}

\* the updates the users of the loop send: both open the dialog, the first
\* cancels it
LoopUpdates ==
    { CallbackUpdate(u, MENU_ADD, MenuMsgId) : u \in LoopUsers }
        \cup { CallbackUpdate(1, <<"CANCEL">>, MenuMsgId) }

Ids(batch) == [i \in 1..Len(batch) |-> batch[i].update_id]

RECURSIVE FromOffset(_, _)
FromOffset(held, offset) ==
    IF held = <<>> THEN <<>>
    ELSE IF Head(held).update_id >= offset
         THEN <<Head(held)>> \o FromOffset(Tail(held), offset)
         ELSE FromOffset(Tail(held), offset)

\* a user acts: Telegram queues the update under the next update_id.  The
\* loop reads the queue in getUpdates only, so an update that arrives while
\* a batch is dispatched is one that arrives right after the batch
Arrive ==
    \E upd \in LoopUpdates :
        /\ loop_pc = "fetch"
        /\ last_update_id < MaxUpdates
        /\ last_update_id' = last_update_id + 1
        /\ pending' = Append(pending, [update_id |-> last_update_id + 1, upd |-> upd])
        /\ UNCHANGED <<bot_vars, next_update_offset, updates, loop_pc, journal, parse_vars, report_vars>>

\* "updates = tg.getUpdates(offset=next_update_offset, timeout=25)" answered,
\* then "if not updates: continue" or the entry into the for loop
have_updates(result) ==
    /\ pending' = result
    /\ IF result = <<>>
       THEN UNCHANGED <<updates, loop_pc, journal>>
       ELSE /\ updates' = result
            /\ loop_pc' = "for"
            /\ journal' = Append(journal, [t |-> "getUpdates",
                                           offset |-> next_update_offset,
                                           batch |-> result])
    /\ UNCHANGED <<bot_vars, next_update_offset, last_update_id, parse_vars, report_vars>>

GetUpdates ==
    /\ loop_pc = "fetch"
    /\ have_updates(FromOffset(pending, next_update_offset))

FetchFailures == Cardinality({i \in 1..Len(journal) : journal[i].t = "failed"})

\* the fetch raises and the loop takes no precaution: the exception leaves
\* start_long_polling
getUpdates_failed_uncaught ==
    /\ loop_pc' = "stopped"
    /\ journal' = Append(journal, [t |-> "failed", offset |-> next_update_offset])
    /\ UNCHANGED <<bot_vars, next_update_offset, updates, pending, last_update_id, parse_vars, report_vars>>

\* "except Exception as exc: logger.exception(...); continue"
getUpdates_failed ==
    /\ journal' = Append(journal, [t |-> "failed", offset |-> next_update_offset])
    /\ UNCHANGED <<bot_vars, next_update_offset, updates, loop_pc, pending, last_update_id, parse_vars, report_vars>>

\* tg.getUpdates raises (network, HTTP status, "ok": false)
GetUpdatesFails ==
    /\ loop_pc = "fetch"
    /\ FetchFailures < MaxFetchFailures
    /\ getUpdates_failed

\* the update the for loop takes, and what it leaves for the next rounds
last_of(batch) == batch[Len(batch)]
current(batch) == Head(batch)

\* the cursor moved only when the dispatch returned normally
for_body_cursor_in_try(update, sendFail, delOk, d) ==
    /\ Handled(update.upd, sendFail, delOk, d)
    /\ next_update_offset' = IF d.w.raised THEN next_update_offset ELSE update.update_id + 1
    /\ updates' = Tail(updates)
    /\ loop_pc' = IF Tail(updates) = <<>> THEN "fetch" ELSE "for"
    /\ journal' = Append(journal, [t |-> "dispatch", id |-> update.update_id,
                                   upd |-> update.upd, sendFail |-> sendFail,
                                   delOk |-> delOk, raised |-> d.w.raised])
    /\ UNCHANGED <<pending, last_update_id, parse_vars, report_vars>>

\* the exception of a dispatch caught around the for loop, not inside it:
\* the rest of the batch is left
for_body_try_around_loop(update, sendFail, delOk, d) ==
    /\ Handled(update.upd, sendFail, delOk, d)
    /\ next_update_offset' = update.update_id + 1
    /\ updates' = IF d.w.raised THEN <<>> ELSE Tail(updates)
    /\ loop_pc' = IF d.w.raised \/ Tail(updates) = <<>> THEN "fetch" ELSE "for"
    /\ journal' = Append(journal, [t |-> "dispatch", id |-> update.update_id,
                                   upd |-> update.upd, sendFail |-> sendFail,
                                   delOk |-> delOk, raised |-> d.w.raised])
    /\ UNCHANGED <<pending, last_update_id, parse_vars, report_vars>>

\* one round of "for update in updates": the dispatch d of the update in its
\* try/except, then "next_update_offset = update_id + 1"
for_body(update, sendFail, delOk, d) ==
    /\ Handled(update.upd, sendFail, delOk, d)
    /\ next_update_offset' = update.update_id + 1
    /\ updates' = Tail(updates)
    /\ loop_pc' = IF Tail(updates) = <<>> THEN "fetch" ELSE "for"
    /\ journal' = Append(journal, [t |-> "dispatch", id |-> update.update_id,
                                   upd |-> update.upd, sendFail |-> sendFail,
                                   delOk |-> delOk, raised |-> d.w.raised])
    /\ UNCHANGED <<pending, last_update_id, parse_vars, report_vars>>

\* the outcomes of the Bot API calls of the dispatch, d0 being the dispatch
\* with every call accepted: any one of the send attempts may fail, and
\* the exception reaches the loop; the deletions are accepted
for_outcomes(update, d0) ==
    \E sendFail \in 0..d0.w.calls :
        for_body(update, sendFail, TRUE,
                 IF sendFail = 0 THEN d0
                 ELSE dispatch(World(user_state, expenses, sendFail, TRUE), update.upd))

DispatchUpdate ==
    /\ loop_pc = "for"
    /\ for_outcomes(current(updates),
                    dispatch(World(user_state, expenses, 0, TRUE), current(updates).upd))

LoopNext == Arrive \/ GetUpdates \/ GetUpdatesFails \/ DispatchUpdate

LoopSpec == Init /\ [][LoopNext]_vars

(* ------------------------- two users at once --------------------------- *)
(* The dialog of Spec for two users whose updates interleave, each with    *)
(* one value per prompt.                                                    *)

IsolationUsers == {1, 2}

IsolationCallbacks ==
    { MENU_ADD, <<"CATEGORY", "::", "Food">>, <<"STORE", "::", "Ozon">>,
      <<"NOTE", "::", "SKIP">>, <<"CONFIRM", "::", "SAVE">>, <<"CANCEL">> }

\* an amount, and a text that is no amount
IsolationTexts == { <<"5", ",", "5", "0">>, <<"hi">> }

\* a user saves while the ledger holds at most MaxRecords records
IsolatedCallback ==
    \E u \in IsolationUsers, data \in IsolationCallbacks :
        /\ data = <<"CONFIRM", "::", "SAVE">> => Len(expenses) <= MaxRecords
        /\ Dispatch(CallbackUpdate(u, data, MenuMsgId))

IsolatedText ==
    \E u \in IsolationUsers, text \in IsolationTexts :
        /\ ExpectText(get_state(user_state, u).payload) = "AMOUNT"
        /\ Dispatch(MessageUpdate(u, text))

IsolationNext == IsolatedCallback \/ IsolatedText \/ Advance

IsolationSpec == Init /\ [][IsolationNext]_vars

(* ----------------------- parse_amount on its own ----------------------- *)
(* parse_amount applied to every text of at most MaxLen lexemes, and the   *)
(* same text typed by a user whose dialog waits for the amount.            *)

MaxLen == 3
Lexemes == {" ", "+", "-", ".", ",", "0", "5", "nan", "inf", "x"}
AmountStrings == UNION {[1..n -> Lexemes] : n \in 0..MaxLen}

Typist == 1

\* the dialog of the typist up to the prompt for the amount
ToAskAmount ==
    << CallbackUpdate(Typist, MENU_ADD, MenuMsgId),
       CallbackUpdate(Typist, <<"CATEGORY", "::", "Food">>, MenuMsgId),
       CallbackUpdate(Typist, <<"STORE", "::", "Ozon">>, MenuMsgId) >>

\* the tables after the dispatches of upds, made one after the other
RECURSIVE after_dispatches(_, _)
after_dispatch_of(d, rest) == after_dispatches(World(d.w.us, d.w.ex, 0, TRUE), rest)
after_dispatches(w, upds) ==
    IF upds = <<>> THEN w
    ELSE after_dispatch_of(dispatch(w, Head(upds)), Tail(upds))

ParseInit ==
    /\ user_state = after_dispatches(World(<<>>, <<>>, 0, TRUE), ToAskAmount).us
    /\ expenses = <<>>
    /\ last = NoEvent
    /\ next_update_offset = NoOffset
    /\ updates = <<>>
    /\ loop_pc = "fetch"
    /\ pending = <<>>
    /\ last_update_id = 0
    /\ journal = <<>>
    /\ amount_text \in AmountStrings
    /\ amount_value = Unparsed
    /\ utcnow = Days[1]
    /\ report = NoReport

\* "amount = parse_amount(text)"
Parse ==
    /\ amount_value = Unparsed
    /\ amount_value' = parse_amount(amount_text)
    /\ UNCHANGED <<bot_vars, loop_vars, amount_text, report_vars>>

\* the typist sends the text while the dialog expects the amount
TypeAmount ==
    /\ get_state(user_state, Typist).state = STATE_ASK_AMOUNT
    /\ ExpectText(get_state(user_state, Typist).payload) = "AMOUNT"
    /\ Dispatch(MessageUpdate(Typist, amount_text))

ParseNext == Parse \/ TypeAmount

ParseSpec == ParseInit /\ [][ParseNext]_vars

(* ---------------------- the monthly report on its own ------------------ *)
(* monthly_report_by_category applied to ledgers of at most MaxRows rows   *)
(* of two users, written on the days of Days, and asked on one of them.    *)

MaxRows == 3
ReportUsers == {1, 2}
ReportCategories == {<<"Food">>, <<"Taxi">>}
ReportAmounts == {Fin(1 * Pow10(FracDigits)), Fin(25 * Pow10(FracDigits - 1))}

\* what a save writes, and the day of Days on which it does
Rows ==
    [user_id : ReportUsers, category : ReportCategories, amount : ReportAmounts,
     day : 1..Len(Days)]

\* the table after the saves t: ids in the order of insertion, created_at
\* the day of the insertion (the DEFAULT of DDL_EXPENSES)
Stamped(t) ==
    [i \in 1..Len(t) |->
        [id |-> i, user_id |-> t[i].user_id, category |-> t[i].category,
         store |-> <<"Ozon">>, amount |-> t[i].amount, note |-> <<>>,
         created_at |-> Days[t[i].day]]]

\* the tables there can be on the day now: the days of the rows follow the
\* order of insertion and none is later than now
Ledgers(now) ==
    { Stamped(t) : t \in { x \in UNION {[1..n -> Rows] : n \in 0..MaxRows} :
                             /\ \A i \in 1..Len(x) : x[i].day <= now
                             /\ \A i \in 1..(Len(x) - 1) : x[i].day <= x[i + 1].day } }

\* strftime('%Y-%m', created_at) and datetime.utcnow().strftime("%Y-%m")
strftime_Ym(t) == <<t[1], t[2]>>

\* a + b on floats above zero
Add(a, b) ==
    IF a.kind = "fin" /\ b.kind = "fin" THEN Fin(a.v + b.v) ELSE [kind |-> "inf", v |-> 0]

\* SUM(amount) over rows; 0.0 in place of the NULL of no row
RECURSIVE SUM(_)
SUM(rows) == IF rows = <<>> THEN Fin(0) ELSE Add(Head(rows).amount, SUM(Tail(rows)))

\* the filter without the user
where_any_user(r, u, month_key) == strftime_Ym(r.created_at) = month_key

\* "WHERE user_id = ? AND strftime('%Y-%m', created_at) = ?"
where(r, u, month_key) == r.user_id = u /\ strftime_Ym(r.created_at) = month_key

selected(ex, u, month_key) == SelectSeq(ex, LAMBDA r : where(r, u, month_key))

\* "SELECT category, SUM(amount) AS total ... GROUP BY category"
group_by_category(sel) ==
    { [category |-> c, total |-> SUM(SelectSeq(sel, LAMBDA r : r.category = c))] :
        c \in {sel[i].category : i \in 1..Len(sel)} }

\* a >= b on floats above zero
Geq(a, b) == a.kind = "inf" \/ (a.kind = "fin" /\ b.kind = "fin" /\ a.v >= b.v)

\* "ORDER BY total DESC": any order that puts no smaller total first
order_by_total_desc(groups) ==
    { s \in [1..Cardinality(groups) -> groups] :
        /\ \A i, k \in 1..Cardinality(groups) : i # k => s[i] # s[k]
        /\ \A i, k \in 1..Cardinality(groups) : i < k => Geq(s[i].total, s[k].total) }

\* the results monthly_report_by_category(conn, user_id) can return
monthly_report_by_category(ex, u, now) ==
    { [rows |-> rows, total |-> SUM(selected(ex, u, strftime_Ym(now))),
       month_key |-> strftime_Ym(now)] :
        rows \in order_by_total_desc(group_by_category(selected(ex, u, strftime_Ym(now)))) }

ReportInit ==
    /\ user_state = <<>>
    /\ last = NoEvent
    /\ next_update_offset = NoOffset
    /\ updates = <<>>
    /\ loop_pc = "fetch"
    /\ pending = <<>>
    /\ last_update_id = 0
    /\ journal = <<>>
    /\ amount_text = <<>>
    /\ amount_value = Unparsed
    /\ report = NoReport
    /\ \E now \in 1..Len(Days) :
           /\ utcnow = Days[now]
           /\ expenses \in Ledgers(now)

\* "if not rows: text = ... else: lines ..." of MonthlyReportHandler.handle
report_text(res, u) ==
    [asked |-> TRUE, user |-> u, rows |-> res.rows, total |-> res.total,
     month_key |-> res.month_key,
     text |-> IF res.rows = <<>> THEN "report_empty" ELSE "report"]

\* the user presses the report button: the dispatch of MENU_REPORT, the Bot
\* API accepting the calls, and what MonthlyReportHandler got to report
Report ==
    \E u \in ReportUsers :
        /\ report = NoReport
        /\ \E res \in monthly_report_by_category(expenses, u, utcnow) :
               report' = report_text(res, u)
        /\ Handled(CallbackUpdate(u, MENU_REPORT, MenuMsgId), 0, TRUE,
                   dispatch(World(user_state, expenses, 0, TRUE),
                            CallbackUpdate(u, MENU_REPORT, MenuMsgId)))
        /\ UNCHANGED <<loop_vars, parse_vars, utcnow>>

ReportNext == Report

ReportSpec == ReportInit /\ [][ReportNext]_vars

(* ----------------------- vocabulary of the properties ------------------ *)

Handling == last.handling
User == last.upd.user
\* the session of the update's user before and after the dispatch
Pre == get_state(last.pre.us, User)
Post == get_state(user_state, User)

IsCallback(data) == Handling /\ last.upd.type = "callback_query" /\ last.upd.data = data
IsText == Handling /\ last.upd.type = "message"

Kinds(out) == [i \in 1..Len(out) |-> out[i].kind]

\* the handle calls of the dispatch and what they returned
Chain(names, results) ==
    /\ Len(last.chain) = Len(names)
    /\ \A i \in 1..Len(names) :
         last.chain[i].h = names[i] /\ last.chain[i].consumed = results[i]

HandledByEngine == Chain(<<"AddExpenseStepsHandler">>, <<"False">>)
FellThrough ==
    Chain(<<"AddExpenseStepsHandler", "UnknownCallbackHandler">>, <<"True", "False">>)

Field(p, k) == IF Has(p, k) THEN <<p[k]>> ELSE <<>>

SameFields(p, q, keys) == \A k \in keys : Field(p, k) = Field(q, k)

\* the prompt id a session records, as the deletions the handler should request
RecordedPrompt(p, chat) ==
    IF Has(p, "last_msg_id") THEN <<[chat |-> chat, id |-> p["last_msg_id"]]>> ELSE <<>>

\* a required field is missing: not in the payload, or an empty name
Lacks(p) ==
    \/ Field(p, "category") \in {<<>>, << <<>> >>}
    \/ Field(p, "store") \in {<<>>, << <<>> >>}
    \/ Field(p, "amount") = <<>>

Idle == [state |-> "IDLE", payload |-> EmptyPayload]

DialogStates == {STATE_ASK_CATEGORY, STATE_ASK_STORE, STATE_ASK_AMOUNT, STATE_ASK_NOTE, STATE_CONFIRM}

SAVE == <<"CONFIRM", "::", "SAVE">>

DialogCallbacks == {d \in CallbackData : parse_callback(d).kind \in callback_handlers}

(* ------------------------------- C1 ------------------------------------ *)

\* the same update delivered once more, right after the one in `last`, under
\* the outcome (sendFail, delOk) of the Bot API calls
Redelivery(sendFail, delOk) == dispatch(World(user_state, expenses, sendFail, delOk), last.upd)

\* C1: Idempotent re-entry.  A CONFIRM::SAVE processed while the session is
\* not in CONFIRM inserts nothing, leaves the session as it is and is
\* returned by the engine as not-mine, so that the catch-all handler answers
\* it.  After a CONFIRM::SAVE that was processed in CONFIRM and inserted its
\* record the session is IDLE, and the same callback delivered again inserts
\* nothing, leaves the session at IDLE and falls through in the same way.
\* Any dialog callback delivered twice in a row inserts at most one record.
C1_IdempotentReentry ==
    /\ (IsCallback(SAVE) /\ Pre.state # STATE_CONFIRM) =>
          /\ expenses = last.pre.ex
          /\ user_state = last.pre.us
          /\ last.chain # <<>> /\ last.chain[1] = [h |-> "AddExpenseStepsHandler", consumed |-> "True"]
          /\ ~last.raised => FellThrough
    /\ (IsCallback(SAVE) /\ Pre.state = STATE_CONFIRM /\ Len(expenses) = Len(last.pre.ex) + 1) =>
          /\ Post = Idle
          /\ \A sendFail \in 0..1, delOk \in BOOLEAN :
               LET d == Redelivery(sendFail, delOk)
               IN  /\ d.w.ex = expenses
                   /\ get_state(d.w.us, User) = Idle
                   /\ d.chain[1] = [h |-> "AddExpenseStepsHandler", consumed |-> "True"]
    /\ (Handling /\ last.upd.type = "callback_query" /\ last.upd.data \in DialogCallbacks) =>
          \A sendFail \in 0..1, delOk \in BOOLEAN :
              Len(Redelivery(sendFail, delOk).w.ex) <= Len(last.pre.ex) + 1

\* a second CONFIRM::SAVE has been delivered to a user whose dialog was saved:
\* the record is in the ledger, the session is IDLE, the callback fell through
C1_Witness ==
    /\ IsCallback(SAVE) /\ Pre = Idle /\ User \in DOMAIN last.pre.us
    /\ Len(last.pre.ex) = 1 /\ expenses = last.pre.ex
    /\ FellThrough

(* ------------------------------- C2 ------------------------------------ *)

\* C2: Completeness invariant.  Whenever a session is in state CONFIRM its
\* payload holds category, store and amount, none of them null.
C2_Completeness ==
    \A u \in DOMAIN user_state :
        user_state[u].state = STATE_CONFIRM =>
            /\ Has(user_state[u].payload, "category") /\ user_state[u].payload["category"] \in Seq(STRING)
            /\ Has(user_state[u].payload, "store") /\ user_state[u].payload["store"] \in Seq(STRING)
            /\ Has(user_state[u].payload, "amount") /\ user_state[u].payload["amount"] # NoFloat

\* a session has reached CONFIRM through the note step
C2_Witness ==
    /\ Handling /\ Pre.state = STATE_ASK_NOTE /\ Post.state = STATE_CONFIRM

(* ------------------------------- C3 ------------------------------------ *)

IsCancel ==
    \/ IsCallback(<<"CANCEL">>) /\ Pre.state \in DialogStates
    \/ IsCallback(<<"CONFIRM", "::", "CANCEL">>) /\ Pre.state = STATE_CONFIRM

\* C3: Cancel from any state.  A CANCEL callback processed in any of the five
\* dialog states (and CONFIRM::CANCEL in CONFIRM) requests the retraction of
\* the recorded prompt, leaves the session at IDLE with payload {} and the
\* ledger as it was; when the Bot API accepts the notice, exactly one cancellation
\* notice is sent and the engine stops the handler chain.
C3_CancelFromAnyState ==
    IsCancel =>
        /\ last.del = RecordedPrompt(Pre.payload, User)
        /\ Post = Idle
        /\ expenses = last.pre.ex
        /\ last.sendFail = 0 =>
             /\ ~last.raised
             /\ Kinds(last.out) = (IF last.upd.data = <<"CANCEL">> THEN <<"cancelled">>
                                   ELSE <<"confirm_cancelled">>)
             /\ HandledByEngine

\* a cancel has been processed in the middle of a dialog whose payload holds
\* a category, a store and an amount
C3_Witness ==
    /\ IsCancel /\ Pre.state = STATE_ASK_NOTE
    /\ Has(Pre.payload, "amount") /\ Has(Pre.payload, "last_msg_id")
    /\ ~last.raised /\ Post = Idle

(* ------------------------------- C4 ------------------------------------ *)

\* the ledger and the sessions after each update of a sequence, every Bot API
\* call succeeding
RECURSIVE Run(_, _, _)
Run(us, ex, upds) ==
    IF upds = <<>> THEN <<>>
    ELSE LET w == dispatch(World(us, ex, 0, TRUE), Head(upds)).w
         IN  <<[us |-> w.us, ex |-> w.ex]>> \o Run(w.us, w.ex, Tail(upds))

CompleteDialog(u, c, s, a) ==
    << CallbackUpdate(u, MENU_ADD, MenuMsgId),
       CallbackUpdate(u, <<"CATEGORY", "::", c>>, MenuMsgId),
       CallbackUpdate(u, <<"STORE", "::", s>>, MenuMsgId),
       MessageUpdate(u, a),
       CallbackUpdate(u, <<"NOTE", "::", "SKIP">>, MenuMsgId),
       CallbackUpdate(u, SAVE, MenuMsgId) >>

\* a decimal numeral: digits with at most one "."
IsNumeral(s) ==
    /\ \E i \in 1..Len(s) : s[i] \in Digits
    /\ \A i \in 1..Len(s) : s[i] \in Digits \cup {"."}
    /\ Cardinality({i \in 1..Len(s) : s[i] = "."}) <= 1

\* the text is a valid positive amount: trimmed, with "," read as "." and one
\* leading "+" dropped, it is a decimal numeral of a value above zero
ValidAmountText(text) ==
    LET s0 == replace(strip(text), ",", ".")
        s == IF startswith(s0, "+") THEN Tail(s0) ELSE s0
    IN  IsNumeral(s) /\ UnsignedFloat(s).v > 0

AmountOf(text) ==
    LET s0 == replace(strip(text), ",", ".")
    IN  UnsignedFloat(IF startswith(s0, "+") THEN Tail(s0) ELSE s0)

ButtonCategories == {"Food"}
ButtonStores == {"Ozon"}

\* C4: Complete dialog.  From every reachable state in which the user is at
\* IDLE, the sequence add trigger, CATEGORY::c, STORE::s, typed valid amount
\* a, NOTE::SKIP, CONFIRM::SAVE leaves the ledger as it was through the first
\* five events, appends with the sixth exactly one record of that user with
\* category c, store s, amount a and note "", and ends at IDLE with an empty
\* payload.
C4_CompleteDialog ==
    \A u \in Users :
        (last = NoEvent /\ get_state(user_state, u).state = "IDLE") =>
            \A c \in ButtonCategories, s \in ButtonStores,
               a \in {t \in AmountTexts : ValidAmountText(t)} :
                LET run == Run(user_state, expenses, CompleteDialog(u, c, s, a))
                IN  /\ \A i \in 1..5 : run[i].ex = expenses
                    /\ run[6].ex = Append(expenses,
                                          [id |-> Len(expenses) + 1, user_id |-> u,
                                           category |-> <<c>>, store |-> <<s>>,
                                           amount |-> AmountOf(a), note |-> <<>>])
                    /\ get_state(run[6].us, u) = Idle

\* the run has gone through such a dialog: the save of a session that holds
\* Food, Ozon, 5.50 and an empty note has appended that record to an empty
\* ledger and left the session at IDLE
C4_Witness ==
    /\ IsCallback(SAVE) /\ Pre.state = STATE_CONFIRM
    /\ last.pre.ex = <<>>
    /\ Field(Pre.payload, "category") = << <<"Food">> >>
    /\ Field(Pre.payload, "store") = << <<"Ozon">> >>
    /\ Field(Pre.payload, "amount") = << Fin(55 * Pow10(FracDigits - 1)) >>
    /\ Field(Pre.payload, "note") = << <<>> >>
    /\ expenses = <<[id |-> 1, user_id |-> User, category |-> <<"Food">>,
                     store |-> <<"Ozon">>, amount |-> Fin(55 * Pow10(FracDigits - 1)), note |-> <<>>]>>
    /\ Post = Idle

(* ------------------------------- C5 ------------------------------------ *)

Changed == Handling /\ Pre.state # Post.state

ForwardEdges ==
    { <<STATE_ASK_CATEGORY, STATE_ASK_STORE>>, <<STATE_ASK_STORE, STATE_ASK_AMOUNT>>,
      <<STATE_ASK_AMOUNT, STATE_ASK_NOTE>>, <<STATE_ASK_NOTE, STATE_CONFIRM>> }

IsCancelData ==
    /\ last.upd.type = "callback_query"
    /\ parse_callback(last.upd.data).kind = <<"CANCEL">>
IsConfirmData ==
    /\ last.upd.type = "callback_query"
    /\ last.upd.data \in {SAVE, <<"CONFIRM", "::", "CANCEL">>}
IsAddTrigger == last.upd.type = "callback_query" /\ last.upd.data = MENU_ADD

\* C5 as stated: every change of a session's state is IDLE -> ASK_CATEGORY by
\* the add trigger, one of the four forward steps, CONFIRM -> IDLE by save or
\* cancel, or any state -> IDLE by cancel; ASK_CATEGORY is entered only from
\* IDLE.
C5_EdgesAsStated ==
    Changed =>
        \/ Pre.state = "IDLE" /\ Post.state = STATE_ASK_CATEGORY /\ IsAddTrigger
        \/ <<Pre.state, Post.state>> \in ForwardEdges
        \/ Pre.state = STATE_CONFIRM /\ Post.state = "IDLE" /\ IsConfirmData
        \/ Post.state = "IDLE" /\ IsCancelData

\* C5: every change of a session's state is any state -> ASK_CATEGORY by the
\* add trigger, one of the four forward steps, CONFIRM -> IDLE by save or
\* cancel, or any state -> IDLE by cancel; ASK_CATEGORY is entered only by
\* the add trigger and, that restart apart, no step is skipped or taken
\* backwards.
C5_Edges ==
    Changed =>
        \/ Post.state = STATE_ASK_CATEGORY /\ IsAddTrigger
        \/ <<Pre.state, Post.state>> \in ForwardEdges
        \/ Pre.state = STATE_CONFIRM /\ Post.state = "IDLE" /\ IsConfirmData
        \/ Post.state = "IDLE" /\ IsCancelData

\* the add trigger has taken a session from the middle of a dialog back to
\* ASK_CATEGORY
C5_Witness ==
    /\ Changed /\ IsAddTrigger
    /\ Pre.state = STATE_ASK_AMOUNT /\ Post.state = STATE_ASK_CATEGORY

(* ------------------------------- C6 ------------------------------------ *)

\* C6: The ledger is append-only and written only by the save transition.
\* An update changes the ledger only if it is a CONFIRM::SAVE processed while
\* the user's state is CONFIRM with category, store and amount in the
\* payload, and the change is one record of that user appended after the
\* records that were there, which stay as they were.  Such a save, when the
\* table accepts its row (amount > 0), does append its record.
C6_AppendOnlyBySave ==
    /\ (Handling /\ expenses # last.pre.ex) =>
          /\ IsCallback(SAVE) /\ Pre.state = STATE_CONFIRM
          /\ ~Lacks(Pre.payload)
          /\ Len(expenses) = Len(last.pre.ex) + 1
          /\ SubSeq(expenses, 1, Len(last.pre.ex)) = last.pre.ex
          /\ expenses[Len(expenses)].user_id = User
    /\ ( /\ IsCallback(SAVE) /\ Pre.state = STATE_CONFIRM
         /\ ~Lacks(Pre.payload) /\ Positive(Pre.payload["amount"]) ) =>
          Len(expenses) = Len(last.pre.ex) + 1

\* a save has appended a record
C6_Witness ==
    /\ IsCallback(SAVE) /\ Pre.state = STATE_CONFIRM
    /\ Len(expenses) = Len(last.pre.ex) + 1

(* ------------------------------- C7 ------------------------------------ *)

\* C7: every record of the ledger has an amount above zero and a category
\* and a store that are non-empty after trimming.
C7_RecordsWellFormed ==
    \A i \in 1..Len(expenses) :
        /\ Positive(expenses[i].amount)
        /\ strip(expenses[i].category) # <<>>
        /\ strip(expenses[i].store) # <<>>

(* ------------------------------- C8 ------------------------------------ *)

\* C8: Inconsistent session at save.  A CONFIRM::SAVE processed in CONFIRM
\* with a payload that lacks category, store or amount writes no record and
\* resets the session to IDLE with an empty payload; when the Bot API accepts
\* the message, exactly one data-loss message is sent and the handler chain
\* stops at the engine.
C8_InconsistentSession ==
    (IsCallback(SAVE) /\ Pre.state = STATE_CONFIRM /\ Lacks(Pre.payload)) =>
        /\ expenses = last.pre.ex
        /\ Post = Idle
        /\ last.sendFail = 0 =>
             /\ ~last.raised
             /\ Kinds(last.out) = <<"data_lost">>
             /\ HandledByEngine

\* a save has met a session in CONFIRM whose category is empty
C8_Witness ==
    /\ IsCallback(SAVE) /\ Pre.state = STATE_CONFIRM /\ Lacks(Pre.payload)
    /\ last.sendFail = 0 /\ Kinds(last.out) = <<"data_lost">> /\ Post = Idle

(* ------------------------------- C9 ------------------------------------ *)

IsCommand == IsText /\ StartHelp_can_handle(World(last.pre.us, last.pre.ex, 0, TRUE), last.upd)

\* C9: Invalid amount.  A typed text other than a command that is not a
\* valid positive amount, processed in ASK_AMOUNT with expect_text = AMOUNT,
\* leaves the state at ASK_AMOUNT, the fields category, store, amount and
\* expect_text and the ledger as they were; when the Bot API accepts the
\* message, exactly one re-prompt is sent, the handler chain stops at the
\* engine and the recorded prompt id is the only part of the session that
\* changes.
C9_InvalidAmount ==
    ( /\ IsText /\ ~IsCommand
      /\ Pre.state = STATE_ASK_AMOUNT /\ ExpectText(Pre.payload) = "AMOUNT"
      /\ ~ValidAmountText(last.upd.data) ) =>
        /\ Post.state = STATE_ASK_AMOUNT
        /\ SameFields(Pre.payload, Post.payload, {"category", "store", "amount", "expect_text"})
        /\ expenses = last.pre.ex
        /\ last.sendFail = 0 =>
             /\ ~last.raised
             /\ Kinds(last.out) = <<"bad_amount">>
             /\ HandledByEngine
             /\ Post.payload = Put(Pre.payload, "last_msg_id", last.out[1].id)

(* ------------------------------- C10 ----------------------------------- *)

ExpectsName == ExpectText(Pre.payload) \in {"CATEGORY", "STORE"}

\* C10: Empty typed name.  A text that is empty after trimming, processed
\* while the session expects a typed category or a typed store, is rejected:
\* the state and the fields category, store and expect_text stay as they
\* were; when the Bot API accepts the message, one re-prompt is sent, no
\* exception surfaces and the engine is the only handler that runs.
C10_EmptyTypedName ==
    (IsText /\ ExpectsName /\ strip(last.upd.data) = <<>>) =>
        /\ Post.state = Pre.state
        /\ SameFields(Pre.payload, Post.payload, {"category", "store", "expect_text"})
        /\ expenses = last.pre.ex
        /\ last.sendFail = 0 =>
             /\ ~last.raised
             /\ Kinds(last.out) = (IF ExpectText(Pre.payload) = "CATEGORY"
                                   THEN <<"empty_category">> ELSE <<"empty_store">>)
             /\ HandledByEngine

\* a blank text has been answered with the re-prompt for a store name
C10_Witness ==
    /\ IsText /\ ExpectText(Pre.payload) = "STORE" /\ strip(last.upd.data) = <<>>
    /\ last.sendFail = 0 /\ Kinds(last.out) = <<"empty_store">>
    /\ Post.state = STATE_ASK_STORE

(* ------------------------------- C11 ----------------------------------- *)

\* the tables the dispatch in last started from
PreWorld == World(last.pre.us, last.pre.ex, 0, TRUE)

\* positions in the chain of the handlers whose can_handle accepts the update
Able == {i \in 1..Len(handlers) : can_handle(handlers[i], PreWorld, last.upd)}

\* position in the chain of the k-th handle call of the dispatch
Called(k) == CHOOSE i \in 1..Len(handlers) : handlers[i] = last.chain[k].h

NotConsumed == {"True", "None"}

\* C11: Dispatcher.dispatch tries the handlers in registration order.  The
\* handle calls of a dispatch are made in registration order, only on
\* handlers whose can_handle accepts the update and on every such handler up
\* to the last one called; every call but the last returned not-consumed;
\* after a call that returned consumed = false (or raised) no handler is
\* called, and after a last call that returned not-consumed no later handler
\* accepts the update.
C11_RegistrationOrder ==
    Handling =>
        /\ \A k \in 1..Len(last.chain) :
             /\ \E i \in Able : handlers[i] = last.chain[k].h
             /\ k < Len(last.chain) =>
                  /\ Called(k) < Called(k + 1)
                  /\ last.chain[k].consumed \in NotConsumed
                  /\ \A i \in Able : ~(Called(k) < i /\ i < Called(k + 1))
        /\ last.chain = <<>> => Able = {}
        /\ last.chain # <<>> =>
             /\ \A i \in Able : i >= Called(1)
             /\ last.chain[Len(last.chain)].consumed \in NotConsumed =>
                  \A i \in Able : i <= Called(Len(last.chain))

\* a dispatch in which the first accepting handler returned not-consumed, the
\* second consumed the update and a third accepting handler was not called
C11_Witness ==
    /\ Handling
    /\ Chain(<<"MenuCallbacksHandler", "RecentHandler">>, <<"True", "False">>)
    /\ \E i \in Able : handlers[i] = "UnknownCallbackHandler"

(* ------------------------------- C12 ----------------------------------- *)

SpecificHandlers ==
    { "StartHelpHandler", "MenuCallbacksHandler", "AddExpenseStepsHandler",
      "RecentHandler", "SumLast10Handler", "MonthlyReportHandler",
      "CsvExportHandler", "HelpMenuHandler" }

CatchAll == IF last.upd.type = "callback_query" THEN "UnknownCallbackHandler" ELSE "UnknownTextHandler"

\* C12: Every event is handled once and answered.  When the Bot API accepts
\* the messages, exactly one handle call of the dispatch returns consumed =
\* false and at least one message is sent; when no specific handler consumes
\* the update, the catch-all of its kind does, with its not-understood
\* message.  The two catch-all handlers are the last two of the chain.
C12_AlwaysAnswered ==
    /\ Len(handlers) >= 2
    /\ handlers[Len(handlers) - 1] = "UnknownCallbackHandler"
    /\ handlers[Len(handlers)] = "UnknownTextHandler"
    /\ \A i \in 1..(Len(handlers) - 2) : handlers[i] \in SpecificHandlers
    /\ (Handling /\ last.sendFail = 0) =>
          /\ ~last.raised
          /\ Cardinality({k \in 1..Len(last.chain) : last.chain[k].consumed = "False"}) = 1
          /\ last.out # <<>>
          /\ (\A k \in 1..Len(last.chain) :
                 last.chain[k].h \in SpecificHandlers => last.chain[k].consumed # "False") =>
               /\ last.chain[Len(last.chain)] = [h |-> CatchAll, consumed |-> "False"]
               /\ Kinds(last.out) = (IF last.upd.type = "callback_query"
                                     THEN <<"unknown_callback">> ELSE <<"unknown_text">>)

\* a word typed at IDLE has been answered by the catch-all for texts
C12_Witness ==
    /\ IsText /\ Pre.state = "IDLE" /\ last.sendFail = 0
    /\ Chain(<<"UnknownTextHandler">>, <<"False">>)
    /\ Kinds(last.out) = <<"unknown_text">>

(* ------------------------------- C13 ----------------------------------- *)

\* what the engine's handle returned in the dispatch in last
EngineCalled == Handling /\ \E k \in 1..Len(last.chain) : last.chain[k].h = "AddExpenseStepsHandler"
EngineResult ==
    last.chain[CHOOSE k \in 1..Len(last.chain) : last.chain[k].h = "AddExpenseStepsHandler"].consumed

Namespace == parse_callback(last.upd.data).kind
Value == parse_callback(last.upd.data).value

\* the state in which the callbacks of a namespace are expected
StateOf(ns) ==
    CASE ns = <<"CATEGORY">> -> STATE_ASK_CATEGORY
      [] ns = <<"STORE">> -> STATE_ASK_STORE
      [] ns = <<"NOTE">> -> STATE_ASK_NOTE
      [] ns = <<"CONFIRM">> -> STATE_CONFIRM

\* a callback of a namespace that is not the one of the current state
Stray ==
    /\ last.upd.type = "callback_query"
    /\ Namespace # <<"CANCEL">>
    /\ StateOf(Namespace) # Pre.state

\* a callback of the namespace of the current state with a value its step
\* does not know
UnknownValue ==
    /\ last.upd.type = "callback_query"
    /\ \/ Namespace = <<"NOTE">> /\ Pre.state = STATE_ASK_NOTE /\ Value # <<"SKIP">>
       \/ /\ Namespace = <<"CONFIRM">> /\ Pre.state = STATE_CONFIRM
          /\ Value \notin {<<"SAVE">>, <<"CANCEL">>}

\* C13 as stated: the engine's handle returns consumed = true when the
\* callback's namespace does not match the session state, and consumed =
\* false in every other case.
C13_ConsumedAsStated ==
    (EngineCalled /\ EngineResult # "raised") =>
        EngineResult = (IF Stray THEN "True" ELSE "False")

\* C13: the engine's handle returns consumed = false on every recognized
\* transition, failed validations and cancel included; it returns
\* not-consumed when the callback's namespace does not match the session
\* state and when the value is not one the step of that state knows: true,
\* or no value at all for an unknown CONFIRM value, which the dispatcher
\* treats like true.
C13_Consumed ==
    (EngineCalled /\ EngineResult # "raised") =>
        EngineResult = (IF Stray THEN "True"
                        ELSE IF UnknownValue
                        THEN (IF Namespace = <<"CONFIRM">> THEN "None" ELSE "True")
                        ELSE "False")

\* NOTE::x has been processed in ASK_NOTE: the engine returned true and the
\* catch-all answered
C13_Witness ==
    /\ IsCallback(<<"NOTE", "::", "x">>) /\ Pre.state = STATE_ASK_NOTE
    /\ FellThrough /\ user_state = last.pre.us

(* ------------------------------- C14 ----------------------------------- *)

AllTexts == CommonTexts \cup CategoryTexts \cup StoreTexts \cup AmountTexts

\* the part of a token before its first "::" (nothing when it has none)
NamespaceOf(data) ==
    IF IndexOf(data, "::") = 0 THEN <<>> ELSE SubSeq(data, 1, IndexOf(data, "::") - 1)

\* the text rule: expect_text and the state are those of a typed step
ExpectsTyped(u) ==
    /\ ExpectText(get_state(user_state, u).payload) \in {"CATEGORY", "STORE", "AMOUNT", "NOTE"}
    /\ get_state(user_state, u).state \in
         {STATE_ASK_CATEGORY, STATE_ASK_STORE, STATE_ASK_AMOUNT, STATE_ASK_NOTE}

CanHandleNow(upd) == AddExpense_can_handle(World(user_state, expenses, 0, TRUE), upd)

\* C14 as stated: can_handle is true for a callback iff its token is CANCEL
\* or its namespace is CATEGORY, STORE, NOTE or CONFIRM, and for a text iff
\* the session expects a typed value in one of the four asking states.
C14_CanHandleAsStated ==
    \A u \in Users :
        /\ \A data \in CallbackData :
             CanHandleNow(CallbackUpdate(u, data, MenuMsgId))
               <=> \/ data = <<"CANCEL">>
                   \/ NamespaceOf(data) \in {<<"CATEGORY">>, <<"STORE">>, <<"NOTE">>, <<"CONFIRM">>}
        /\ \A text \in AllTexts : CanHandleNow(MessageUpdate(u, text)) <=> ExpectsTyped(u)

\* C14: can_handle is true for a callback iff its token is CANCEL or its
\* namespace is CATEGORY, STORE, NOTE, CONFIRM or CANCEL, and for a text iff
\* the session expects a typed value in one of the four asking states; so a
\* text is never accepted at IDLE, in CONFIRM or without expect_text.
C14_CanHandle ==
    \A u \in Users :
        /\ \A data \in CallbackData :
             CanHandleNow(CallbackUpdate(u, data, MenuMsgId))
               <=> \/ data = <<"CANCEL">>
                   \/ NamespaceOf(data) \in
                        {<<"CATEGORY">>, <<"STORE">>, <<"NOTE">>, <<"CONFIRM">>, <<"CANCEL">>}
        /\ \A text \in AllTexts :
             /\ CanHandleNow(MessageUpdate(u, text)) <=> ExpectsTyped(u)
             /\ get_state(user_state, u).state \in {"IDLE", STATE_CONFIRM}
                  => ~CanHandleNow(MessageUpdate(u, text))
             /\ ~Has(get_state(user_state, u).payload, "expect_text")
                  => ~CanHandleNow(MessageUpdate(u, text))

\* the engine has taken CANCEL::x in the middle of a dialog and cancelled it
C14_Witness ==
    /\ IsCallback(<<"CANCEL", "::", "x">>) /\ Pre.state = STATE_ASK_STORE
    /\ HandledByEngine /\ Post = Idle

(* ------------------- the polling loop: vocabulary ---------------------- *)

IsDispatch(e) == e.t = "dispatch"
IsFetch(e) == e.t \in {"getUpdates", "failed"}

\* the dispatches the loop made, in order
Dispatches == SelectSeq(journal, IsDispatch)

\* the updates the transport returned, batch after batch
RECURSIVE Returned(_)
Returned(j) ==
    IF j = <<>> THEN <<>>
    ELSE IF Head(j).t = "getUpdates"
         THEN Head(j).batch \o Returned(Tail(j))
         ELSE Returned(Tail(j))

LoopAlive == loop_pc \in {"fetch", "for"}

\* C15: after each dispatched update the cursor is its update_id plus one,
\* whether the dispatch returned or raised; every fetch is requested with a
\* cursor past every update dispatched before it; the cursor never
\* decreases and no update is dispatched twice
C15_CursorAdvance ==
    /\ next_update_offset =
           IF Dispatches = <<>> THEN NoOffset
           ELSE Dispatches[Len(Dispatches)].id + 1
    /\ \A i \in 1..Len(journal) : \A k \in 1..(i - 1) :
           IsFetch(journal[i]) /\ IsDispatch(journal[k])
               => journal[i].offset > journal[k].id
    /\ \A i \in 1..Len(journal) : \A k \in 1..(i - 1) :
           IsFetch(journal[i]) /\ IsFetch(journal[k])
               => journal[k].offset <= journal[i].offset
    /\ \A i \in 1..Len(Dispatches) : \A k \in 1..(i - 1) :
           Dispatches[k].id < Dispatches[i].id

\* a dispatch raised, and the next fetch asked past its update
C15_Witness ==
    \E i \in 1..(Len(journal) - 1) :
        /\ IsDispatch(journal[i]) /\ journal[i].raised
        /\ journal[i + 1].t = "getUpdates"
        /\ journal[i + 1].offset = journal[i].id + 1

\* C16: a failed fetch is logged, the loop goes on and fetches again with
\* the same cursor: nothing is dispatched and the cursor does not move
\* between the failure and the next fetch
C16_FetchFailure ==
    /\ LoopAlive
    /\ \A i \in 1..Len(journal) :
           journal[i].t = "failed" =>
               IF i = Len(journal)
               THEN /\ loop_pc = "fetch"
                    /\ updates = <<>>
                    /\ next_update_offset = journal[i].offset
               ELSE /\ IsFetch(journal[i + 1])
                    /\ journal[i + 1].offset = journal[i].offset

\* a fetch failed after some updates were dispatched, and the fetch after
\* it brought the updates that were waiting, which were dispatched
C16_Witness ==
    \E i \in 2..(Len(journal) - 2) :
        /\ journal[i].t = "failed"
        /\ journal[i].offset # NoOffset
        /\ journal[i + 1].t = "getUpdates"
        /\ journal[i + 1].offset = journal[i].offset
        /\ IsDispatch(journal[i + 2])

\* C17: a dispatch that raises is logged and the loop goes on: the updates
\* dispatched, followed by the ones the for loop still holds, are exactly
\* the updates returned, in order; a new batch is fetched only when
\* nothing of the previous one is left
C17_Isolation ==
    /\ LoopAlive
    /\ (loop_pc = "fetch") <=> (updates = <<>>)
    /\ Ids(Returned(journal)) = [i \in 1..Len(Dispatches) |-> Dispatches[i].id] \o Ids(updates)
    /\ \A i \in 1..(Len(journal) - 1) :
           IsDispatch(journal[i]) /\ journal[i].raised /\ IsDispatch(journal[i + 1])
               => journal[i + 1].id > journal[i].id

\* the dispatch of the first update of a batch of two raised, the second
\* was dispatched all the same and a later batch was fetched
C17_Witness ==
    \E i \in 1..(Len(journal) - 3) :
        /\ journal[i].t = "getUpdates" /\ Len(journal[i].batch) = 2
        /\ IsDispatch(journal[i + 1]) /\ journal[i + 1].raised
        /\ IsDispatch(journal[i + 2]) /\ ~journal[i + 2].raised
        /\ journal[i + 2].id = journal[i].batch[2].update_id
        /\ journal[i + 3].t = "getUpdates"

\* the tables after the dispatches of the journal, made one after the
\* other, each on the tables the one before left
RECURSIVE Replay(_, _, _), Replay_step(_, _)
Replay_step(rest, d) == Replay(rest, d.w.us, d.w.ex)
Replay(j, us, ex) ==
    IF j = <<>> THEN [us |-> us, ex |-> ex]
    ELSE IF IsDispatch(Head(j))
         THEN Replay_step(Tail(j), dispatch(World(us, ex, Head(j).sendFail, Head(j).delOk), Head(j).upd))
         ELSE Replay(Tail(j), us, ex)

\* the dispatches done are the first updates returned, which Telegram
\* numbered in the order of their arrival
InOrder(done, returned) ==
    \A k \in 1..Len(done) :
        /\ done[k].id = returned[k].update_id
        /\ done[k].upd = returned[k].upd
        /\ done[k].id = k

\* C18: the updates are dispatched one at a time, in the order the
\* transport returned them, which is the order of their arrival; each
\* dispatch works on the tables the previous one left, so the tables are
\* those of the dispatches made one after the other
C18_Sequential ==
    /\ InOrder(Dispatches, Returned(journal))
    /\ Replay(Dispatches, <<>>, <<>>) = [us |-> user_state, ex |-> expenses]
    /\ last # NoEvent => last.upd = Dispatches[Len(Dispatches)].upd

\* two users interleaved in one batch: the first opened the dialog, the
\* second opened it, the first cancelled; the first is idle, the second is
\* choosing a category
C18_Witness ==
    /\ Len(Dispatches) = 3
    /\ journal[1].t = "getUpdates" /\ Len(journal[1].batch) = 3
    /\ Dispatches[1].upd = CallbackUpdate(1, MENU_ADD, MenuMsgId)
    /\ Dispatches[2].upd = CallbackUpdate(2, MENU_ADD, MenuMsgId)
    /\ Dispatches[3].upd = CallbackUpdate(1, <<"CANCEL">>, MenuMsgId)
    /\ \A k \in 1..3 : ~Dispatches[k].raised
    /\ get_state(user_state, 1) = Idle
    /\ get_state(user_state, 2).state = STATE_ASK_CATEGORY

(* ------------------------- parse_amount: claims ------------------------ *)

Parsed == amount_value # Unparsed
Accepted == Parsed /\ amount_value # NoFloat

\* the text trimmed, with "," replaced by ".", and one leading "+" stripped
Normalised(text) == replace(strip(text), ",", ".")
OnePlusStripped(s) == IF startswith(s, "+") THEN Tail(s) ELSE s

\* C19: whenever parse_amount succeeds the value is a finite number above
\* zero, equal to the numeric value of the text after replacing "," by "."
\* and stripping one leading "+"
C19_RoundTrip ==
    Accepted =>
        /\ amount_value.kind = "fin"
        /\ amount_value.v > 0
        /\ amount_value = float(OnePlusStripped(Normalised(amount_text)))

\* the numeric value of a text: that of its decimal numeral, blanks around
\* it aside; NoFloat when the text is not a decimal numeral
NumericValue(s) == IF IsNumeral(strip(s)) THEN UnsignedFloat(strip(s)) ELSE NoFloat

LeadingMinus(text) == startswith(strip(text), "-")

\* the text is numeric: after at most one leading "+" it is a decimal numeral
Numeric(text) == NumericValue(OnePlusStripped(Normalised(text))) # NoFloat

Rejected(text) == parse_amount(text) = NoFloat

\* C20: "." and "," are read alike; a numeral with one leading "+" is
\* accepted with the value of the numeral; a text with a leading "-", a
\* text that is not numeric and a value of zero or less are rejected; a
\* rejected text typed at the amount prompt leaves the state and the fields
\* of the session as they were and is answered by the re-prompt
C20_AcceptanceRules ==
    /\ Parsed =>
        /\ amount_value = parse_amount(replace(amount_text, ",", "."))
        /\ amount_value = parse_amount(replace(amount_text, ".", ","))
        /\ (Numeric(amount_text) /\ Positive(NumericValue(OnePlusStripped(Normalised(amount_text)))))
               => amount_value = NumericValue(OnePlusStripped(Normalised(amount_text)))
        /\ LeadingMinus(amount_text) => amount_value = NoFloat
        /\ ~Numeric(amount_text) => amount_value = NoFloat
        /\ (Numeric(amount_text) /\ LeqZero(NumericValue(OnePlusStripped(Normalised(amount_text)))))
               => amount_value = NoFloat
    /\ (Handling /\ IsText /\ Rejected(last.upd.data)) =>
        /\ Post.state = STATE_ASK_AMOUNT
        /\ SameFields(Pre.payload, Post.payload, {"category", "store", "amount", "expect_text"})
        /\ expenses = last.pre.ex
        /\ last.sendFail = 0 => Kinds(last.out) = <<"bad_amount">>

(* ------------------------ monthly report: claims ----------------------- *)

\* the rows of the ledger of the report's user written in the month of the
\* report
InMonth ==
    { i \in DOMAIN expenses :
        /\ expenses[i].user_id = report.user
        /\ expenses[i].created_at[1] = utcnow[1]
        /\ expenses[i].created_at[2] = utcnow[2] }

\* the sum of the amounts of the rows S of the ledger
RECURSIVE AmountsOf(_)
AmountsOf(S) ==
    IF S = {} THEN 0
    ELSE expenses[CHOOSE i \in S : TRUE].amount.v
             + AmountsOf(S \ {CHOOSE i \in S : TRUE})

RECURSIVE TotalsOf(_)
TotalsOf(rows) == IF rows = <<>> THEN 0 ELSE Head(rows).total.v + TotalsOf(Tail(rows))

NoTransition ==
    /\ Handling /\ last.upd.type = "callback_query"
    /\ Namespace \in {<<"CATEGORY">>, <<"STORE">>, <<"NOTE">>, <<"CONFIRM">>}
    /\ Stray \/ UnknownValue

\* C22: a callback of a dialog namespace that has no transition in the
\* situation (state mismatch, NOTE::v other than SKIP, CONFIRM::v other than
\* SAVE and CANCEL) leaves the sessions and the ledger as they were; the
\* engine does not report it consumed, the catch-all handler is called next
\* and, when the Bot API accepts the message, answers it
C22_UnknownPairs ==
    NoTransition =>
        /\ user_state = last.pre.us
        /\ expenses = last.pre.ex
        /\ Len(last.chain) = 2
        /\ last.chain[1].h = "AddExpenseStepsHandler"
        /\ last.chain[1].consumed \in NotConsumed
        /\ last.chain[2].h = "UnknownCallbackHandler"
        /\ last.sendFail = 0 =>
             /\ ~last.raised
             /\ last.chain[2].consumed = "False"
             /\ Kinds(last.out) = <<"unknown_callback">>
             /\ last.ack = 1

\* CONFIRM::x pressed at CONFIRM: the engine returned nothing and the
\* catch-all answered
C22_Witness ==
    /\ IsCallback(<<"CONFIRM", "::", "x">>) /\ Pre.state = STATE_CONFIRM
    /\ Chain(<<"AddExpenseStepsHandler", "UnknownCallbackHandler">>, <<"None", "False">>)
    /\ Kinds(last.out) = <<"unknown_callback">>
    /\ Post = Pre

(* ------------------------------- C23 ----------------------------------- *)

\* the engine has written the session of the update's user
StepWritten == EngineCalled /\ Post # Pre

\* C23: a step persists its result as a whole: whenever the engine has
\* changed a session, the prompt id the session records is the id of the
\* message this step sent, never the id of the previous prompt next to the
\* new state, also when the delivery of the prompt failed
C23_AtomicStep ==
    StepWritten =>
        (Has(Post.payload, "last_msg_id") =>
            /\ last.out # <<>>
            /\ Post.payload["last_msg_id"] = last.out[Len(last.out)].id)

(* ------------------------------- C24 ----------------------------------- *)

\* a step of the dialog that sent a message: a transition, a re-prompt, a
\* cancel or a save made by the engine, or the add trigger
StepSent ==
    /\ Handling /\ last.out # <<>>
    /\ \/ EngineCalled /\ EngineResult = "False"
       \/ IsAddTrigger

\* the deletion of message mid was requested before the first message of
\* the dispatch was sent
DeletedFirst(mid) ==
    \E k \in 1..last.out[1].dels : last.del[k].id = mid

\* C24: on every step that sends a prompt or a terminal message while the
\* session records the id of a previous prompt, the deletion of that prompt
\* is requested before the message is sent
C24_RetractionFirst ==
    (StepSent /\ Has(Pre.payload, "last_msg_id")) =>
        DeletedFirst(Pre.payload["last_msg_id"])

(* ------------------------------- C25 ----------------------------------- *)

\* the dispatch of the same update on the same tables, with the same send
\* failure, when Telegram accepts the deletions
WithDeletion == dispatch(World(last.pre.us, last.pre.ex, last.sendFail, TRUE), last.upd)

SameAs(d) ==
    /\ user_state = d.w.us
    /\ expenses = d.w.ex
    /\ last.out = d.w.out
    /\ last.del = d.w.del
    /\ last.raised = d.w.raised
    /\ last.chain = d.chain

\* C25: when Telegram refuses the deletion of the previous prompt during a
\* step, a cancel or a save, the engine sends the same messages and leaves
\* the same sessions and the same ledger as when the deletion succeeds, and
\* the refusal raises nothing: an exception leaves the handler only when
\* it does so with the deletion accepted as well
C25_RetractionSwallowed ==
    (Handling /\ EngineCalled /\ last.del # <<>> /\ ~last.delOk) => SameAs(WithDeletion)

\* a save whose deletion of the confirmation prompt was refused: the record
\* is written, the session is reset and the final message is sent
C25_Witness ==
    /\ IsCallback(SAVE) /\ Pre.state = STATE_CONFIRM
    /\ ~last.delOk /\ last.del # <<>>
    /\ Kinds(last.out) = <<"saved">>
    /\ Len(expenses) = Len(last.pre.ex) + 1
    /\ Post = Idle

(* ------------------------------- C26 ----------------------------------- *)

\* the engine recognised the update as a step of its dialog: it consumed the
\* update, or it raised while it handled it
RecognisedStep == EngineCalled /\ EngineResult \in {"False", "raised"}

\* C26: every recognised step of the engine (a value chosen or typed, a
\* request for a new value, an amount accepted or rejected, a note typed or
\* skipped, a save, a save with missing data, a cancel) sends exactly one
\* message when Telegram accepts every send: never none, never two
C26_OneMessage ==
    (RecognisedStep /\ last.sendFail = 0) => Len(last.out) = 1

(* ------------------------------- C27 ----------------------------------- *)

\* Telegram refused a send of a step of the engine
EngineSendFailed == RecognisedStep /\ last.sendFail > 0

LastDispatch == Dispatches[Len(Dispatches)]

\* C27: when the send of a step's prompt or final message fails, the engine
\* does not swallow the failure: handle raises, no later handler is called
\* and the exception leaves dispatch; the loop catches it at the update (it
\* keeps running) and the cursor is past that update all the same
C27_SendFailurePropagates ==
    EngineSendFailed =>
        /\ last.raised
        /\ last.chain[Len(last.chain)] = [h |-> "AddExpenseStepsHandler", consumed |-> "raised"]
        /\ Len(last.out) = last.sendFail - 1
        /\ Dispatches # <<>> =>
               /\ LastDispatch.upd = last.upd /\ LastDispatch.raised
               /\ LoopAlive
               /\ next_update_offset = LastDispatch.id + 1

\* the final message of a cancel in the middle of a dialog could not be
\* sent: the dispatch raised, the loop went on and a later batch was fetched
\* from the cursor past the cancel
C27_Witness ==
    /\ EngineSendFailed /\ last.raised
    /\ last.upd.data = <<"CANCEL">> /\ Pre.state = STATE_ASK_CATEGORY
    /\ Dispatches # <<>> /\ LastDispatch.raised
    /\ journal[Len(journal)].t = "getUpdates"
    /\ journal[Len(journal)].offset = LastDispatch.id + 1

(* ------------------------------- C28 ----------------------------------- *)

Others == IsolationUsers \ {User}

OfUser(r) == r.user_id = User
OfOthers(r) == r.user_id # User

\* the tables with the rows of the update's user only
OwnSessions(us) == [x \in (DOMAIN us) \cap {User} |-> us[x]]

\* the dispatch of the same update, with the same outcome of the Bot API
\* calls, when the tables hold nothing of the other users
Alone ==
    dispatch(World(OwnSessions(last.pre.us), SelectSeq(last.pre.ex, OfUser),
                   last.sendFail, last.delOk), last.upd)

\* what the user of the update gets does not depend on the rows of the others
SameForUser(d) ==
    /\ Kinds(last.out) = Kinds(d.w.out)
    /\ last.raised = d.w.raised
    /\ last.chain = d.chain
    /\ Post.state = get_state(d.w.us, User).state
    /\ SameFields(Post.payload, get_state(d.w.us, User).payload,
                  {"category", "store", "amount", "note", "expect_text"})
    /\ Len(SelectSeq(expenses, OfUser)) = Len(d.w.ex)

\* C28: the dispatch of an update of user u, whether it returns or raises,
\* leaves the session row of every other user as it was (present or absent,
\* state and payload) and leaves every record of the ledger as it was; the
\* records it adds carry the user id of the update; and what it does is what
\* it does on tables that hold the rows of u only
C28_CrossUserIsolation ==
    Handling =>
        /\ \A v \in Others :
               /\ (v \in DOMAIN user_state) <=> (v \in DOMAIN last.pre.us)
               /\ get_state(user_state, v) = get_state(last.pre.us, v)
        /\ Len(expenses) >= Len(last.pre.ex)
        /\ SubSeq(expenses, 1, Len(last.pre.ex)) = last.pre.ex
        /\ \A i \in (Len(last.pre.ex) + 1)..Len(expenses) : expenses[i].user_id = User
        /\ SameForUser(Alone)

\* user 1 saves a record while user 2, who has a record in the ledger, is in
\* the middle of a dialog
C28_Witness ==
    /\ IsCallback(<<"CONFIRM", "::", "SAVE">>) /\ User = 1
    /\ Len(expenses) = Len(last.pre.ex) + 1
    /\ \E i \in 1..Len(last.pre.ex) : last.pre.ex[i].user_id = 2
    /\ get_state(user_state, 2).state = STATE_ASK_AMOUNT
    /\ Post.state = "IDLE"

(* ------------------------------- C29 ----------------------------------- *)

MidDialog == Pre.state \in DialogStates

\* an update that is no input of the dialog: a command, a menu button other
\* than the add trigger, a dialog callback without a transition in the
\* current state, a text the engine does not take
NotDialogInput ==
    \/ IsText /\ last.upd.data \in {<<"/start">>, <<"/help">>}
    \/ /\ Handling /\ last.upd.type = "callback_query"
       /\ last.upd.data \in MenuData \ {MENU_ADD}
    \/ NoTransition
    \/ IsText /\ ~RecognisedStep

\* C29: a session in the middle of a dialog is left as it is, state and
\* payload, by every update that is no input of its dialog (/start, /help,
\* the menu buttons main, recent, sum, report, export and help, callbacks
\* without a transition in the state, texts the engine does not take); and
\* the session table is written only by a step of the engine or by the add
\* trigger
C29_NoAutoCancel ==
    /\ (Handling /\ MidDialog /\ NotDialogInput) => (user_state = last.pre.us /\ Post = Pre)
    /\ (Handling /\ user_state # last.pre.us) => (RecognisedStep \/ IsAddTrigger)

\* /start typed while the dialog waits for the name of a new category: the
\* command is answered and the session still waits for the name
C29_Witness ==
    /\ IsText /\ last.upd.data = <<"/start">>
    /\ Pre.state = STATE_ASK_CATEGORY /\ ExpectText(Pre.payload) = "CATEGORY"
    /\ last.out # <<>>
    /\ Post = Pre

(* ------------------------------- C30 ----------------------------------- *)

\* the session table with the row of the update's user taken away when it is
\* there, and with the row (IDLE, {}) put in when it is not
WithOrWithoutRow(us) ==
    IF User \in DOMAIN us
    THEN [x \in (DOMAIN us) \ {User} |-> us[x]]
    ELSE Upsert(us, User, Idle)

\* the dispatch of the same update with the same outcome of the Bot API calls
\* for the other of the two users: the one without a row, the one with the
\* row (IDLE, {})
OtherIdle ==
    dispatch(World(WithOrWithoutRow(last.pre.us), last.pre.ex, last.sendFail, last.delOk),
             last.upd)

SameOutcome(d) ==
    /\ last.out = d.w.out /\ last.del = d.w.del /\ last.ack = d.w.ack
    /\ last.raised = d.w.raised
    /\ last.chain = d.chain
    /\ expenses = d.w.ex
    /\ Post = get_state(d.w.us, User)

\* C30: the session table holds one row per user id at most (it is keyed by
\* the user id); get_state gives (IDLE, {}) for a user without a row; and a
\* user without a row and a user whose row is (IDLE, {}) get the same
\* outcome from every update: the same calls to the Bot API, the same
\* exception, the same handlers, the same ledger and the same session after
C30_IdleDefault ==
    /\ \A u \in Users : u \notin DOMAIN user_state => get_state(user_state, u) = Idle
    /\ (Handling /\ Pre = Idle) => SameOutcome(OtherIdle)

\* the add trigger pressed by a user whose row is (IDLE, {}) after a cancel
C30_Witness ==
    /\ Handling /\ IsAddTrigger
    /\ User \in DOMAIN last.pre.us /\ Pre = Idle
    /\ Post.state = STATE_ASK_CATEGORY

(* ------------------------------- C31 ----------------------------------- *)

\* a step of the engine, or the add trigger, that sent a prompt and left the
\* dialog open
PromptStep ==
    /\ Handling /\ (RecognisedStep \/ IsAddTrigger)
    /\ last.out # <<>>
    /\ Post.state # "IDLE"

DeletedIds == {last.del[k].id : k \in 1..Len(last.del)}

\* C31: after a step that sent a prompt and left the dialog open, the
\* payload records the id of the prompt sent last, which is the id of no
\* message whose deletion the step requested; and a step of the engine
\* requests the deletion of the recorded prompt and of no other message
C31_RecordedPromptId ==
    /\ PromptStep =>
           /\ Has(Post.payload, "last_msg_id")
           /\ Post.payload["last_msg_id"] = last.out[Len(last.out)].id
           /\ Post.payload["last_msg_id"] \notin DeletedIds
    /\ (Handling /\ RecognisedStep) =>
           DeletedIds \subseteq {Pre.payload[k] : k \in {"last_msg_id"} \cap DOMAIN Pre.payload}

\* the store is chosen while the payload records the category prompt: that
\* prompt is deleted, the store prompt is sent and its id recorded
C31_Witness ==
    /\ IsCallback(<<"CATEGORY", "::", "Food">>) /\ Pre.state = STATE_ASK_CATEGORY
    /\ Has(Pre.payload, "last_msg_id")
    /\ DeletedIds = {Pre.payload["last_msg_id"]}
    /\ Kinds(last.out) = <<"choose_store">>
    /\ Post.state = STATE_ASK_STORE
    /\ Post.payload["last_msg_id"] = last.out[1].id
    /\ Post.payload["last_msg_id"] # Pre.payload["last_msg_id"]

(* ------------------------------- C32 ----------------------------------- *)

Collected == {"category", "store", "amount", "note"}

\* a text that is no command and is not blank, typed while the session in
\* state st waits for the text named expect
TypedFor(st, expect) ==
    /\ IsText /\ ~IsCommand /\ strip(last.upd.data) # <<>>
    /\ Pre.state = st /\ ExpectText(Pre.payload) = expect

\* a callback of namespace ns with the value v, in the state of the namespace
Chosen(ns, st) ==
    /\ Handling /\ last.upd.type = "callback_query"
    /\ Namespace = ns /\ Pre.state = st

\* C32: CATEGORY::NEW in ASK_CATEGORY (STORE::NEW in ASK_STORE) keeps the
\* state, sets expect_text to CATEGORY (STORE) and leaves category, store,
\* amount and note as they were; a text that is not blank (and is no command,
\* which the engine never sees) typed while the session waits for that name is
\* recorded trimmed as the category (store) and moves the session to ASK_STORE
\* (to ASK_AMOUNT with expect_text AMOUNT); every other value v of CATEGORY::v
\* or STORE::v is recorded as it is and moves the session on in the same way
C32_NewValueRequests ==
    /\ (Chosen(<<"CATEGORY">>, STATE_ASK_CATEGORY) /\ Value = <<"NEW">>) =>
           /\ Post.state = STATE_ASK_CATEGORY
           /\ ExpectText(Post.payload) = "CATEGORY"
           /\ SameFields(Pre.payload, Post.payload, Collected)
    /\ (Chosen(<<"STORE">>, STATE_ASK_STORE) /\ Value = <<"NEW">>) =>
           /\ Post.state = STATE_ASK_STORE
           /\ ExpectText(Post.payload) = "STORE"
           /\ SameFields(Pre.payload, Post.payload, Collected)
    /\ TypedFor(STATE_ASK_CATEGORY, "CATEGORY") =>
           /\ Post.state = STATE_ASK_STORE
           /\ Field(Post.payload, "category") = <<strip(last.upd.data)>>
           /\ ExpectText(Post.payload) = None
    /\ TypedFor(STATE_ASK_STORE, "STORE") =>
           /\ Post.state = STATE_ASK_AMOUNT
           /\ Field(Post.payload, "store") = <<strip(last.upd.data)>>
           /\ ExpectText(Post.payload) = "AMOUNT"
    /\ (Chosen(<<"CATEGORY">>, STATE_ASK_CATEGORY) /\ Value # <<"NEW">>) =>
           /\ Post.state = STATE_ASK_STORE
           /\ Field(Post.payload, "category") = <<Value>>
    /\ (Chosen(<<"STORE">>, STATE_ASK_STORE) /\ Value # <<"NEW">>) =>
           /\ Post.state = STATE_ASK_AMOUNT
           /\ Field(Post.payload, "store") = <<Value>>
           /\ ExpectText(Post.payload) = "AMOUNT"

\* the store " Ozon " typed after STORE::NEW, the category being chosen
\* already: it is recorded as "Ozon" and the amount is asked for
C32_Witness ==
    /\ TypedFor(STATE_ASK_STORE, "STORE")
    /\ last.upd.data = <<" ", "Ozon", " ">>
    /\ Field(Pre.payload, "category") = << <<"Food">> >>
    /\ Post.state = STATE_ASK_AMOUNT
    /\ Field(Post.payload, "store") = << <<"Ozon">> >>
    /\ Field(Post.payload, "category") = << <<"Food">> >>

(* ------------------------------- C33 ----------------------------------- *)

\* the text a state may wait for
KeyOf(st) ==
    CASE st = STATE_ASK_CATEGORY -> {"CATEGORY"}
      [] st = STATE_ASK_STORE -> {"STORE"}
      [] st = STATE_ASK_AMOUNT -> {"AMOUNT"}
      [] st = STATE_ASK_NOTE -> {"NOTE"}
      [] OTHER -> {}

\* C33: in every session of the table the state is one of IDLE,
\* ASK_CATEGORY, ASK_STORE, ASK_AMOUNT, ASK_NOTE, CONFIRM; expect_text is
\* absent, null, or the key of the state; it is AMOUNT in ASK_AMOUNT and NOTE
\* in ASK_NOTE, and it is not set in IDLE or CONFIRM
C33_StateAndExpectText ==
    \A u \in DOMAIN user_state :
        /\ user_state[u].state \in {"IDLE"} \cup DialogStates
        /\ ExpectText(user_state[u].payload) \in {None} \cup KeyOf(user_state[u].state)
        /\ user_state[u].state \in {STATE_ASK_AMOUNT, STATE_ASK_NOTE}
               => ExpectText(user_state[u].payload) \in KeyOf(user_state[u].state)

\* the store typed after STORE::NEW: the session waited for STORE in ASK_STORE
\* and waits for AMOUNT in ASK_AMOUNT
C33_Witness ==
    /\ TypedFor(STATE_ASK_STORE, "STORE")
    /\ Post.state = STATE_ASK_AMOUNT
    /\ ExpectText(Post.payload) = "AMOUNT"

(* ------------------------------- C34 ----------------------------------- *)

\* the fields a session in state st has collected
Required(st) ==
    CASE st = STATE_ASK_STORE -> {"category"}
      [] st = STATE_ASK_AMOUNT -> {"category", "store"}
      [] st \in {STATE_ASK_NOTE, STATE_CONFIRM} -> {"category", "store", "amount"}
      [] OTHER -> {}

Complete(row) == Required(row.state) \subseteq DOMAIN row.payload

\* C34: in every session of the table, ASK_STORE has a category, ASK_AMOUNT
\* a category and a store, ASK_NOTE and CONFIRM a category, a store and an
\* amount; and an amount in a payload is strictly positive
C34_StepCompleteness ==
    \A u \in DOMAIN user_state :
        /\ Complete(user_state[u])
        /\ Has(user_state[u].payload, "amount") => Positive(user_state[u].payload["amount"])

(* ------------------------------- C35 ----------------------------------- *)

\* the add trigger was handled to the end
AddProcessed == Handling /\ IsAddTrigger /\ ~last.raised

\* C35: after the add trigger has been handled, whatever the state of the
\* session was, the session is ASK_CATEGORY and its payload holds the id of
\* the category prompt and nothing else: no category, store, amount, note or
\* expect_text of an earlier dialog; and the add trigger writes no record
C35_FreshDialog ==
    /\ AddProcessed =>
           /\ Post.state = STATE_ASK_CATEGORY
           /\ DOMAIN Post.payload \subseteq {"last_msg_id"}
    /\ (Handling /\ IsAddTrigger) => expenses = last.pre.ex

\* the add trigger pressed at the confirmation of a complete dialog
C35_Witness ==
    /\ AddProcessed
    /\ Pre.state = STATE_CONFIRM
    /\ Collected \subseteq DOMAIN Pre.payload
    /\ Post.state = STATE_ASK_CATEGORY
    /\ DOMAIN Post.payload = {"last_msg_id"}
    /\ expenses = <<>>

(* ------------------------------- C36 ----------------------------------- *)

\* the field the step of a state collects
CollectedIn(st) ==
    CASE st = STATE_ASK_CATEGORY -> {"category"}
      [] st = STATE_ASK_STORE -> {"store"}
      [] st = STATE_ASK_AMOUNT -> {"amount"}
      [] st = STATE_ASK_NOTE -> {"note"}
      [] OTHER -> {}

\* a step of the engine that left the dialog open
OpenStep == Handling /\ RecognisedStep /\ Post.state # "IDLE"

SavedRecord == expenses[Len(expenses)]

RecordWritten == IsCallback(SAVE) /\ Len(expenses) = Len(last.pre.ex) + 1

\* C36: a step of the engine that leaves the dialog open changes, of the
\* four collected fields, only the one its state collects and leaves the
\* others as they were; and the record a save inserts carries exactly the
\* category, the store, the amount and the note of the payload, which are
\* the ones accepted since the last add trigger of the user
C36_StepsPreserveFields ==
    /\ OpenStep => SameFields(Pre.payload, Post.payload, Collected \ CollectedIn(Pre.state))
    /\ RecordWritten =>
           /\ <<SavedRecord.category>> = Field(Pre.payload, "category")
           /\ <<SavedRecord.store>> = Field(Pre.payload, "store")
           /\ <<SavedRecord.amount>> = Field(Pre.payload, "amount")
           /\ <<SavedRecord.note>> = Field(Pre.payload, "note")

(* ------------------------------- C37 ----------------------------------- *)

\* a command typed while the session waits for a typed text
CommandDuringInput == IsCommand /\ ExpectText(Pre.payload) \in text_handlers

\* C37: a text that begins with /start or /help, typed while the session
\* waits for a category, a store, an amount or a note, is handled by the
\* start/help handler and by no other handler: the engine is not called, the
\* session table and the ledger stay as they were, and the menu is sent when
\* Telegram accepts the sends
C37_CommandsWin ==
    CommandDuringInput =>
        /\ Len(last.chain) = 1
        /\ last.chain[1].h = "StartHelpHandler"
        /\ last.chain[1].consumed \in {"False", "raised"}
        /\ ~EngineCalled
        /\ user_state = last.pre.us
        /\ expenses = last.pre.ex
        /\ last.sendFail = 0 =>
               /\ ~last.raised
               /\ last.out[Len(last.out)].kind = "main_menu"

\* /help typed while the amount is asked for: the help text and the menu are
\* sent and the session still waits for the amount
C37_Witness ==
    /\ CommandDuringInput /\ last.upd.data = <<"/help">>
    /\ Pre.state = STATE_ASK_AMOUNT /\ ExpectText(Pre.payload) = "AMOUNT"
    /\ Kinds(last.out) = <<"help_text", "main_menu">>
    /\ Post = Pre

(* ------------------------------- C38 ----------------------------------- *)

\* the dispatch of a callback that returned without an exception
CallbackCompleted == Handling /\ last.upd.type = "callback_query" /\ ~last.raised

\* the acknowledgements handler h makes of the update on the tables the
\* dispatch started from (the handlers that let an update fall through write
\* neither table)
AcksOf(h) == handle(h, PreWorld, last.upd).w.ack

\* C38: a callback whose dispatch returns without an exception is
\* acknowledged exactly once; the handler that acknowledges it is the last
\* one called, which returned consumed = false; the handlers that let it
\* fall through do not acknowledge it
C38_AcknowledgedOnce ==
    CallbackCompleted =>
        /\ last.ack = 1
        /\ last.chain # <<>>
        /\ last.chain[Len(last.chain)].consumed = "False"
        /\ AcksOf(last.chain[Len(last.chain)].h) = 1
        /\ \A k \in 1..(Len(last.chain) - 1) :
               /\ last.chain[k].consumed \in NotConsumed
               /\ AcksOf(last.chain[k].h) = 0

\* STORE::Ozon pressed while the amount is asked for: the engine lets it
\* fall through without an acknowledgement and the catch-all acknowledges it
C38_Witness ==
    /\ CallbackCompleted /\ FellThrough
    /\ Namespace = <<"STORE">> /\ Pre.state = STATE_ASK_AMOUNT
    /\ last.ack = 1
    /\ AcksOf("AddExpenseStepsHandler") = 0

(* ------------------------------- C39 ----------------------------------- *)

\* a save at the confirmation that wrote no record
SaveWithoutRecord ==
    IsCallback(SAVE) /\ Pre.state = STATE_CONFIRM /\ expenses = last.pre.ex

\* C39: a save at the confirmation that wrote no record either met a payload
\* that lacks a required field, or failed at the insertion: then the
\* exception leaves the handler before the session is reset, nothing is
\* deleted or sent, and the session table is as it was, CONFIRM with its
\* payload; and a save leaves the session at IDLE only when it wrote its
\* record or a required field was missing
C39_SaveFailureKeepsDialog ==
    /\ (SaveWithoutRecord /\ ~Lacks(Pre.payload)) =>
           /\ last.raised
           /\ user_state = last.pre.us
           /\ Post.state = STATE_CONFIRM
           /\ last.del = <<>> /\ last.out = <<>>
    /\ (IsCallback(SAVE) /\ Pre.state = STATE_CONFIRM /\ Post.state = "IDLE") =>
           (RecordWritten \/ Lacks(Pre.payload))

\* the save of a payload whose amount the table refuses: no record, the
\* session still at the confirmation with the whole payload
C39_Witness ==
    /\ SaveWithoutRecord /\ ~Lacks(Pre.payload)
    /\ last.raised
    /\ Post = Pre /\ Post.state = STATE_CONFIRM
    /\ Collected \subseteq DOMAIN Post.payload

============================================================================
